---- MODULE Spec2Model ----
(***************************************************************************)
(* Model of the Excel editing engine of backend/open_webui/routers/excel.py *)
(* (lock table, preflight analysis, cell mutation, formula QC, atomic       *)
(* persistence and the update / download-ready / validate workflows).       *)
(*                                                                          *)
(* Text is modelled as sequences of one-character strings, so that the      *)
(* string operations of the source (startswith, lstrip, count, upper, the   *)
(* reference regex) are computed on the characters as the code computes     *)
(* them.                                                                    *)
(***************************************************************************)
EXTENDS Integers, Sequences, FiniteSets, TLC

(***************************************************************************)
(* Bounds of the model.                                                     *)
(***************************************************************************)
\* requests the client tasks issue in one run, all tasks together
MaxReqs == 2

(***************************************************************************)
(* Characters and strings.                                                  *)
(***************************************************************************)
UpperLetters ==
  <<"A","B","C","D","E","F","G","H","I","J","K","L","M",
    "N","O","P","Q","R","S","T","U","V","W","X","Y","Z">>

LowerLetters ==
  <<"a","b","c","d","e","f","g","h","i","j","k","l","m",
    "n","o","p","q","r","s","t","u","v","w","x","y","z">>

DigitChars == <<"0","1","2","3","4","5","6","7","8","9">>

SeqToSet(q) == {q[i] : i \in 1..Len(q)}

\* the character classes of the reference pattern, [A-Z], \d, \w and [^'],
\* and the lower-case letters
InClass(c, cls) ==
  CASE cls = "upper" -> c \in SeqToSet(UpperLetters)
    [] cls = "lower" -> c \in SeqToSet(LowerLetters)
    [] cls = "digit" -> c \in SeqToSet(DigitChars)
    [] cls = "word" ->
         c \in SeqToSet(UpperLetters \o LowerLetters \o DigitChars \o <<"_">>)
    [] cls = "notquote" -> c # "'"
    [] OTHER -> FALSE

\* str.upper() on one character
UpperChar(c) ==
  IF InClass(c, "lower")
  THEN UpperLetters[CHOOSE i \in 1..26 : LowerLetters[i] = c] ELSE c

Upper(s) == [i \in 1..Len(s) |-> UpperChar(s[i])]

\* str.lower()
Lower(s) ==
  [i \in 1..Len(s) |->
     IF InClass(s[i], "upper")
     THEN LowerLetters[CHOOSE k \in 1..26 : UpperLetters[k] = s[i]] ELSE s[i]]

\* str.startswith
StartsWith(s, prefix) ==
  /\ Len(s) >= Len(prefix)
  /\ SubSeq(s, 1, Len(prefix)) = prefix

\* str.count of a single character
CountChar(s, c) == Cardinality({i \in 1..Len(s) : s[i] = c})

\* `sub in s` for strings
Contains(s, sub) ==
  \E i \in 1..(Len(s) - Len(sub) + 1) : SubSeq(s, i, i + Len(sub) - 1) = sub

\* str.replace(c, "") for a single character c
RECURSIVE RemoveChar(_, _)
RemoveChar(s, c) ==
  IF s = <<>> THEN <<>>
  ELSE IF Head(s) = c THEN RemoveChar(Tail(s), c)
  ELSE <<Head(s)>> \o RemoveChar(Tail(s), c)

\* str.lstrip(c) for a single character c
RECURSIVE LStripChar(_, _)
LStripChar(s, c) ==
  IF s # <<>> /\ Head(s) = c THEN LStripChar(Tail(s), c) ELSE s

\* str.rstrip(c) for a single character c
RECURSIVE RStripChar(_, _)
RStripChar(s, c) ==
  IF s # <<>> /\ s[Len(s)] = c THEN RStripChar(SubSeq(s, 1, Len(s) - 1), c) ELSE s

\* str.strip(): removes the whitespace at both ends
RECURSIVE Strip(_)
Strip(s) ==
  IF s # <<>> /\ Head(s) \in {" ", "\t", "\n", "\r", "\f"} THEN Strip(Tail(s))
  ELSE IF s # <<>> /\ s[Len(s)] \in {" ", "\t", "\n", "\r", "\f"}
       THEN Strip(SubSeq(s, 1, Len(s) - 1))
  ELSE s

\* the index of the first occurrence of character c in s, 0 when absent
FirstIndex(s, c) ==
  IF \E i \in 1..Len(s) : s[i] = c
  THEN CHOOSE i \in 1..Len(s) : s[i] = c /\ \A j \in 1..(i - 1) : s[j] # c
  ELSE 0

\* s.replace("''", "'"): non-overlapping, left to right
RECURSIVE UnescapeQuotes(_)
UnescapeQuotes(s) ==
  IF s = <<>> THEN <<>>
  ELSE IF Len(s) >= 2 /\ s[1] = "'" /\ s[2] = "'"
       THEN <<"'">> \o UnescapeQuotes(SubSeq(s, 3, Len(s)))
       ELSE <<Head(s)>> \o UnescapeQuotes(Tail(s))

\* the decimal digits of a natural number (str(n))
RECURSIVE IntToChars(_)
IntToChars(n) ==
  IF n < 10 THEN <<DigitChars[n + 1]>>
  ELSE IntToChars(n \div 10) \o <<DigitChars[(n % 10) + 1]>>

\* int(s) of a non-empty string of decimal digits
RECURSIVE CharsToInt(_)
CharsToInt(s) ==
  IF s = <<>> THEN 0
  ELSE 10 * CharsToInt(SubSeq(s, 1, Len(s) - 1))
         + (CHOOSE i \in 1..10 : DigitChars[i] = s[Len(s)]) - 1

(***************************************************************************)
(* Column letters and coordinates (openpyxl.utils, as the source uses them). *)
(***************************************************************************)
\* openpyxl get_column_letter: 1 -> A, 26 -> Z, 27 -> AA
RECURSIVE get_column_letter(_)
get_column_letter(col) ==
  IF col <= 26 THEN <<UpperLetters[col]>>
  ELSE get_column_letter((col - 1) \div 26) \o <<UpperLetters[((col - 1) % 26) + 1]>>

\* openpyxl column_index_from_string: A -> 1, Z -> 26, AA -> 27
RECURSIVE column_index_from_string(_)
column_index_from_string(letters) ==
  IF letters = <<>> THEN 0
  ELSE 26 * column_index_from_string(SubSeq(letters, 1, Len(letters) - 1))
         + (CHOOSE i \in 1..26 : UpperLetters[i] = UpperChar(letters[Len(letters)]))

\* f"{get_column_letter(col)}{row}"
Address(row, col) == get_column_letter(col) \o IntToChars(row)

\* the position after the longest run of characters of class cls that starts
\* at position i of s (i itself when s[i] is not of the class)
RECURSIVE RunEnd(_, _, _)
RunEnd(s, i, cls) ==
  IF i <= Len(s) /\ InClass(s[i], cls) THEN RunEnd(s, i + 1, cls) ELSE i

\* an optional "$" at position j of s: the position after it (0 stays 0, the
\* mark of a match that has already failed)
OptDollar(s, j) == IF j # 0 /\ j <= Len(s) /\ s[j] = "$" THEN j + 1 ELSE j

\* [A-Z]{1,3} at position j, taken greedily: the position after the letters, 0
\* when the run of letters there is not 1..3 long
LettersEnd(s, j) ==
  IF j = 0 THEN 0
  ELSE LET l == RunEnd(s, j, "upper")
       IN  IF l - j >= 1 /\ l - j <= 3 THEN l ELSE 0

\* \d+ at position j: the position after the digits, 0 when there is none
DigitsEnd(s, j) ==
  IF j = 0 THEN 0
  ELSE LET d == RunEnd(s, j, "digit")
       IN  IF d > j THEN d ELSE 0

\* a if the match a succeeded, else b
OrElse(a, b) == IF a # 0 THEN a ELSE b

\* the column letters and the row of a coordinate whose letters span j1..l-1
\* and whose digits start at j2; the digits must reach the end of s and the
\* row must be at least 1
CoordinateParts(s, j1, l, j2) ==
  IF /\ l # 0
     /\ DigitsEnd(s, j2) = Len(s) + 1
     /\ CharsToInt(SubSeq(s, j2, Len(s))) >= 1
  THEN [ok |-> TRUE, col |-> SubSeq(s, j1, l - 1),
        row |-> CharsToInt(SubSeq(s, j2, Len(s)))]
  ELSE [ok |-> FALSE, col |-> <<>>, row |-> 0]

\* openpyxl coordinate_from_string: ^[$]?([A-Za-z]{1,3})[$]?(\d+)$ with row >= 1.
\* ok = FALSE stands for the CellCoordinatesException it raises.
coordinate_from_string(s) ==
  CoordinateParts(s, OptDollar(s, 1), LettersEnd(Upper(s), OptDollar(s, 1)),
                  OptDollar(s, LettersEnd(Upper(s), OptDollar(s, 1))))

(***************************************************************************)
(* Reference Resolver.                                                      *)
(***************************************************************************)
\* One cell of the pattern, \$?[A-Z]{1,3}\$?\d+, matched at position j of s:
\* the position after the match, 0 when there is none.  The letters are taken
\* greedily and a fourth letter can be followed by neither "$" nor a digit,
\* so a match needs the whole run of letters to be 1..3 long.
CellEnd(s, j) == DigitsEnd(s, OptDollar(s, LettersEnd(s, OptDollar(s, j))))

\* (?::cell)? after a first corner that ends before position c: the optional
\* second corner is taken whenever it matches
SecondCornerEnd(s, c) ==
  IF c = 0 THEN 0
  ELSE IF c <= Len(s) /\ s[c] = ":" THEN OrElse(CellEnd(s, c + 1), c)
  ELSE c

\* The optional sheet prefix (?:'[^']+'!|\w+!) matched at position i: the
\* position after it, 0 when there is none.
PrefixEnd(s, i) ==
  LET q == RunEnd(s, i + 1, "notquote")
      w == RunEnd(s, i, "word")
  IN  IF /\ i <= Len(s) /\ s[i] = "'"
         /\ q > i + 1 /\ q + 1 <= Len(s) /\ s[q] = "'" /\ s[q + 1] = "!"
      THEN q + 2
      ELSE IF w > i /\ w <= Len(s) /\ s[w] = "!" THEN w + 1
      ELSE 0

\* the whole pattern matched at position i (prefix first, then without it)
MatchEnd(s, i) ==
  OrElse(SecondCornerEnd(s, CellEnd(s, PrefixEnd(s, i))),
         SecondCornerEnd(s, CellEnd(s, i)))

\* re.findall: leftmost non-overlapping matches from position i on; e is the
\* end of the match at i
RECURSIVE FindAllFrom(_, _)
FindAllStep(s, i, e) ==
  IF e # 0 THEN <<SubSeq(s, i, e - 1)>> \o FindAllFrom(s, e)
  ELSE FindAllFrom(s, i + 1)

FindAllFrom(s, i) ==
  IF i > Len(s) THEN <<>> ELSE FindAllStep(s, i, MatchEnd(s, i))

_parse_cell_references_from_formula(formula) == FindAllFrom(Upper(formula), 1)

\* the rectangle's addresses, rows outermost: range(start_row, end_row + 1) x
\* range(start_col, end_col + 1); empty when an end lies before its start
RECURSIVE RectCells(_, _, _, _, _)
RectCells(row, col, c1, r2, c2) ==
  IF row > r2 \/ c1 > c2 THEN <<>>
  ELSE IF col > c2 THEN RectCells(row + 1, c1, c1, r2, c2)
  ELSE <<Address(row, col)>> \o RectCells(row, col + 1, c1, r2, c2)

\* the cells between the two corners, or [range_str] when a corner is no
\* coordinate (the except branch)
ExpandCorners(r, start, end) ==
  IF start.ok /\ end.ok
  THEN RectCells(start.row, column_index_from_string(start.col),
                 column_index_from_string(start.col),
                 end.row, column_index_from_string(end.col))
  ELSE <<r>>

\* start, end = range_str.split(':') raises unless there is exactly one ":"
ExpandStripped(r) ==
  IF CountChar(r, ":") = 1
  THEN ExpandCorners(r,
         coordinate_from_string(SubSeq(r, 1, FirstIndex(r, ":") - 1)),
         coordinate_from_string(SubSeq(r, FirstIndex(r, ":") + 1, Len(r))))
  ELSE <<r>>

\* range_str.split('!')[-1] is what follows the last "!", the whole string
\* when there is none
_expand_range(range_str) ==
  IF ~Contains(range_str, <<":">>) THEN <<range_str>>
  ELSE LET bangs == {i \in 1..Len(range_str) : range_str[i] = "!"}
           last == IF bangs = {} THEN 0 ELSE CHOOSE i \in bangs : \A j \in bangs : j <= i
       IN  ExpandStripped(RemoveChar(SubSeq(range_str, last + 1, Len(range_str)), "$"))

_normalize_sheet_name(sheet_name) ==
  LET normalized == Strip(sheet_name)
  IN  IF /\ StartsWith(normalized, <<"'">>)
         /\ normalized[Len(normalized)] = "'"
         /\ Len(normalized) >= 2
      THEN UnescapeQuotes(SubSeq(normalized, 2, Len(normalized) - 1))
      ELSE normalized

\* <<sheet, range>>; reference.split("!", 1) splits at the first "!"
_split_sheet_and_range(reference, default_sheet) ==
  IF ~Contains(reference, <<"!">>) THEN <<default_sheet, reference>>
  ELSE LET k == FirstIndex(reference, "!")
       IN  <<_normalize_sheet_name(SubSeq(reference, 1, k - 1)),
             SubSeq(reference, k + 1, Len(reference))>>

(***************************************************************************)
(* Ordering of strings (sorted() compares code points).                     *)
(***************************************************************************)
\* the characters the model writes, in code point order
CharRank(c) ==
  LET CodePointOrder ==
        <<"\t", "\n", "\f", "\r", " ", "!", "#", "$", "'", "(", ")", "+", "-", ".",
          "0","1","2","3","4","5","6","7","8","9", ":", "=", "?">>
        \o UpperLetters \o <<"_">> \o LowerLetters
  IN  IF \E i \in 1..Len(CodePointOrder) : CodePointOrder[i] = c
      THEN CHOOSE i \in 1..Len(CodePointOrder) : CodePointOrder[i] = c
      ELSE 0

\* a < b for strings
RECURSIVE StrLess(_, _)
StrLess(a, b) ==
  IF b = <<>> THEN FALSE
  ELSE IF a = <<>> THEN TRUE
  ELSE IF Head(a) = Head(b) THEN StrLess(Tail(a), Tail(b))
  ELSE CharRank(Head(a)) < CharRank(Head(b))

\* sorted(S) for a set of strings
RECURSIVE SortedStrings(_)
SortedStrings(S) ==
  IF S = {} THEN <<>>
  ELSE LET m == CHOOSE x \in S : \A y \in S \ {x} : StrLess(x, y)
       IN  <<m>> \o SortedStrings(S \ {m})

(***************************************************************************)
(* Cell values: None, int, float, bool and str.  s holds the text of a str  *)
(* and the canonical digits of a number.                                    *)
(***************************************************************************)
NoneV == [t |-> "none", s |-> <<>>]

StrV(chars) == [t |-> "str", s |-> chars]

IntV(n) == [t |-> "int", s |-> IntToChars(n)]

\* isinstance(value, str) and value.startswith("=")
IsFormulaValue(v) == v.t = "str" /\ StartsWith(v.s, <<"=">>)

\* digits without their leading zeros ("007" -> "7", "000" -> "0")
RECURSIVE DropLeadingZeros(_)
DropLeadingZeros(d) ==
  IF Len(d) > 1 /\ Head(d) = "0" THEN DropLeadingZeros(Tail(d)) ELSE d

\* a numeric literal without the sign character at its head
Unsigned(st) == IF st # <<>> /\ Head(st) \in {"+", "-"} THEN Tail(st) ELSE st

\* int(stripped) succeeds: an optional sign and decimal digits
IsIntLiteral(st) ==
  /\ Unsigned(st) # <<>>
  /\ \A c \in SeqToSet(Unsigned(st)) : InClass(c, "digit")

\* float(stripped) succeeds for a text holding ".": an optional sign, digits
\* around exactly one "." and at least one digit
IsFloatLiteral(st) ==
  LET u == Unsigned(st)
      k == FirstIndex(u, ".")
  IN  /\ CountChar(u, ".") = 1
      /\ Len(u) >= 2
      /\ \A i \in 1..Len(u) : i # k => InClass(u[i], "digit")

\* the value int(stripped) returns
IntOf(st) ==
  LET d == DropLeadingZeros(Unsigned(st))
  IN  [t |-> "int",
       s |-> IF Head(st) = "-" /\ d # <<"0">> THEN <<"-">> \o d ELSE d]

\* the value float(stripped) returns, as repr() prints it
FloatOf(st) ==
  LET u    == Unsigned(st)
      k    == FirstIndex(u, ".")
      ip   == IF k = 1 THEN <<"0">> ELSE DropLeadingZeros(SubSeq(u, 1, k - 1))
      fr   == RStripChar(SubSeq(u, k + 1, Len(u)), "0")
      frac == IF fr = <<>> THEN <<"0">> ELSE fr
  IN  [t |-> "float",
       s |-> (IF Head(st) = "-" THEN <<"-">> ELSE <<>>) \o ip \o <<".">> \o frac]

_coerce_cell_value(value) ==
  IF value.t # "str" THEN value
  ELSE LET stripped == Strip(value.s)
       IN  IF stripped = <<>> THEN value
           ELSE IF Contains(stripped, <<".">>)
                THEN (IF IsFloatLiteral(stripped) THEN FloatOf(stripped) ELSE value)
                ELSE (IF IsIntLiteral(stripped) THEN IntOf(stripped) ELSE value)

(***************************************************************************)
(* Mutation Applicator.                                                     *)
(***************************************************************************)
\* a CellChange of a request
Change(row, col, value, isFormula, force) ==
  [row |-> row, col |-> col, value |-> value, isFormula |-> isFormula,
   forceOverwriteFormula |-> force]

\* openpyxl refuses a str that holds a control character (IllegalCharacterError);
\* the form feed is the one the model writes
WriteRaises(v) == v.t = "str" /\ \E i \in 1..Len(v.s) : v.s[i] = "\f"

\* ws.cell(row, column).value; a cell never written reads None
CellValue(ws, row, col) ==
  IF <<row, col>> \in DOMAIN ws THEN ws[<<row, col>>] ELSE NoneV

\* the value one change writes: the formula text verbatim, else the coerced value
ChangeWrites(change) ==
  IF /\ change.isFormula
     /\ change.value.t = "str"
     /\ StartsWith(change.value.s, <<"=">>)
  THEN change.value
  ELSE _coerce_cell_value(change.value)

\* whether the loop body reaches `cell.value = ...` and the assignment succeeds
ChangeWritten(change) ==
  /\ ~(change.row < 1 \/ change.col < 1)
  /\ change.value.t # "none"
  /\ ~WriteRaises(ChangeWrites(change))

\* whether the loop body reaches `changes_applied += 1` for this change: the
\* log.debug line between the assignment and the count formats
\* get_column_letter(change.col), which raises ValueError for a column beyond
\* ZZZ (18278), and the except clause then skips the count
ChangeApplies(change) ==
  /\ ChangeWritten(change)
  /\ change.col <= 18278

\* [ws: the sheet after the changes, changes_applied: the count returned]
RECURSIVE _apply_worksheet_changes(_, _)
_apply_worksheet_changes(ws, changes) ==
  IF changes = <<>> THEN [ws |-> ws, changes_applied |-> 0]
  ELSE LET change == Head(changes)
           now    == IF ChangeWritten(change)
                     THEN [k \in DOMAIN ws \cup {<<change.row, change.col>>} |->
                             IF k = <<change.row, change.col>>
                             THEN ChangeWrites(change) ELSE ws[k]]
                     ELSE ws
           rest   == _apply_worksheet_changes(now, Tail(changes))
       IN  [ws |-> rest.ws,
            changes_applied |->
              rest.changes_applied + (IF ChangeApplies(change) THEN 1 ELSE 0)]

(***************************************************************************)
(* Workbooks.  A workbook is [sheetnames, sheets, defined_names]: the sheet  *)
(* titles in order, the cells of each sheet (a function from <<row, col>> to *)
(* a value), and the defined names with their destinations.                  *)
(***************************************************************************)
\* ws.iter_rows(): the cells of a sheet, rows outermost
RECURSIVE CellsInOrder(_)
CellsInOrder(coords) ==
  IF coords = {} THEN <<>>
  ELSE LET m == CHOOSE k \in coords :
                  \A o \in coords \ {k} :
                    k[1] < o[1] \/ (k[1] = o[1] /\ k[2] < o[2])
       IN  <<m>> \o CellsInOrder(coords \ {m})

\* every formula cell of the workbook as [sheet, row, col, formula], in the
\* order the nested loops over wb.sheetnames and ws.iter_rows() visit them
RECURSIVE FormulaCellsOfSheet(_, _, _)
FormulaCellsOfSheet(title, ws, order) ==
  IF order = <<>> THEN <<>>
  ELSE LET k == Head(order)
       IN  (IF IsFormulaValue(ws[k])
            THEN <<[sheet |-> title, row |-> k[1], col |-> k[2],
                    formula |-> ws[k].s]>>
            ELSE <<>>)
           \o FormulaCellsOfSheet(title, ws, Tail(order))

RECURSIVE FormulaCellsFrom(_, _)
FormulaCellsFrom(wb, i) ==
  IF i > Len(wb.sheetnames) THEN <<>>
  ELSE FormulaCellsOfSheet(wb.sheetnames[i], wb.sheets[i],
                           CellsInOrder(DOMAIN wb.sheets[i]))
       \o FormulaCellsFrom(wb, i + 1)

FormulaCells(wb) == FormulaCellsFrom(wb, 1)

\* wb[sheet_name] as an index into wb.sheets (sheet_name in wb.sheetnames)
SheetIndex(wb, sheet_name) ==
  CHOOSE i \in 1..Len(wb.sheetnames) : wb.sheetnames[i] = sheet_name

HasSheet(wb, sheet_name) ==
  \E i \in 1..Len(wb.sheetnames) : wb.sheetnames[i] = sheet_name

(***************************************************************************)
(* Formula QC Scanner / Repairer.                                           *)
(***************************************************************************)
\* ExcelQcIssue; arg is the missing sheet a missing_sheet_reference names
QcIssue(fc, severity, issueType, arg, repaired, repaired_formula) ==
  [sheet |-> fc.sheet, cell |-> Address(fc.row, fc.col), severity |-> severity,
   issueType |-> issueType, arg |-> arg, originalFormula |-> StrV(fc.formula),
   repairedFormula |-> IF repaired THEN StrV(repaired_formula) ELSE NoneV]

\* formula.startswith("==")
NeedsPrefixRepair(formula) == StartsWith(formula, <<"=", "=">>)

\* a faulty repair: it takes one "=" off the front, whatever follows
RepairedFormulaOneOff(formula) ==
  IF NeedsPrefixRepair(formula) THEN Tail(formula) ELSE formula

\* "=" + formula.lstrip("=") when the formula starts with "==", else the formula
RepairedFormula(formula) ==
  IF NeedsPrefixRepair(formula) THEN <<"=">> \o LStripChar(formula, "=") ELSE formula

\* a faulty search: the tokens are found in upper case only
HasInvalidTokenExact(formula) ==
  \/ Contains(formula, <<"#","R","E","F","!">>)
  \/ Contains(formula, <<"#","N","A","M","E","?">>)
  \/ Contains(formula, <<"#","V","A","L","U","E","!">>)

\* invalid_token_re.search: #REF!, #NAME? or #VALUE!, ignoring case
HasInvalidToken(formula) ==
  LET u == Upper(formula)
  IN  \/ Contains(u, <<"#","R","E","F","!">>)
      \/ Contains(u, <<"#","N","A","M","E","?">>)
      \/ Contains(u, <<"#","V","A","L","U","E","!">>)

\* the sheets the formula references that the workbook does not have
\* ref.split("!", 1)[0], normalized
MissingSheets(refs, sheets_by_lower) ==
  {_normalize_sheet_name(SubSeq(refs[i], 1, FirstIndex(refs[i], "!") - 1)) :
     i \in {j \in 1..Len(refs) :
              /\ Contains(refs[j], <<"!">>)
              /\ Lower(_normalize_sheet_name(
                         SubSeq(refs[j], 1, FirstIndex(refs[j], "!") - 1)))
                   \notin sheets_by_lower}}

\* the issues one formula cell appends, in the order the code appends them
\* the checks on the (repaired) formula rf of cell fc; missing is the sorted
\* list of the missing sheets it references
QcChecks(fc, repaired, rf, missing) ==
  (IF CountChar(rf, "(") # CountChar(rf, ")")
   THEN <<QcIssue(fc, "critical", "unbalanced_parentheses", <<>>, repaired, rf)>>
   ELSE <<>>)
  \o (IF HasInvalidToken(rf)
      THEN <<QcIssue(fc, "critical", "invalid_reference_token", <<>>, repaired, rf)>>
      ELSE <<>>)
  \o [i \in 1..Len(missing) |->
        QcIssue(fc, "critical", "missing_sheet_reference", missing[i], repaired, rf)]
  \o (IF repaired /\ rf # fc.formula
      THEN <<QcIssue(fc, "warning", "auto_repaired_formula_prefix", <<>>, TRUE, rf)>>
      ELSE <<>>)

QcRepaired(fc, sheets_by_lower, rf) ==
  QcChecks(fc, NeedsPrefixRepair(fc.formula), rf,
           SortedStrings(MissingSheets(_parse_cell_references_from_formula(rf),
                                       sheets_by_lower)))

QcCellIssues(fc, sheets_by_lower) ==
  QcRepaired(fc, sheets_by_lower, RepairedFormula(fc.formula))

RECURSIVE QcIssuesOver(_, _)
QcIssuesOver(fcs, sheets_by_lower) ==
  IF fcs = <<>> THEN <<>>
  ELSE QcCellIssues(Head(fcs), sheets_by_lower)
       \o QcIssuesOver(Tail(fcs), sheets_by_lower)

\* the formula cell of fcs at sheet title, coordinate k (there is one)
FormulaCellAt(fcs, title, k) ==
  CHOOSE i \in 1..Len(fcs) :
    fcs[i].sheet = title /\ fcs[i].row = k[1] /\ fcs[i].col = k[2]

\* [issues, repairs_applied, wb: the workbook with the repairs written]
\* the formula cells whose repaired formula differs and is written back
Repairs(fcs) ==
  {i \in 1..Len(fcs) :
     NeedsPrefixRepair(fcs[i].formula)
     /\ RepairedFormula(fcs[i].formula) # fcs[i].formula}

\* a faulty scan: it writes every formula cell back, its text in upper case
QcScanUpperCasing(wb, fcs, repairs) ==
  [issues |-> QcIssuesOver(fcs, {Lower(wb.sheetnames[i]) : i \in 1..Len(wb.sheetnames)}),
   repairs_applied |-> Cardinality(repairs),
   wb |-> [wb EXCEPT !.sheets =
             [si \in DOMAIN wb.sheets |->
                [k \in DOMAIN wb.sheets[si] |->
                   IF IsFormulaValue(wb.sheets[si][k])
                   THEN StrV(Upper(RepairedFormula(wb.sheets[si][k].s)))
                   ELSE wb.sheets[si][k]]]]]

\* the scan over the formula cells fcs, of which those in repairs are rewritten
QcScan(wb, fcs, repairs) ==
  [issues |-> QcIssuesOver(fcs, {Lower(wb.sheetnames[i]) : i \in 1..Len(wb.sheetnames)}),
   repairs_applied |-> Cardinality(repairs),
   wb |-> [wb EXCEPT !.sheets =
             [si \in DOMAIN wb.sheets |->
                [k \in DOMAIN wb.sheets[si] |->
                   IF \E i \in repairs :
                        /\ fcs[i].sheet = wb.sheetnames[si]
                        /\ fcs[i].row = k[1]
                        /\ fcs[i].col = k[2]
                   THEN StrV(RepairedFormula(
                          fcs[FormulaCellAt(fcs, wb.sheetnames[si], k)].formula))
                   ELSE wb.sheets[si][k]]]]]


_run_formula_qc_and_repairs(wb) ==
  QcScan(wb, FormulaCells(wb), Repairs(FormulaCells(wb)))

QcIssueLimit == 50

\* a faulty report: one critical issue is not enough to block
_build_qc_report_lenient(issues, operation) ==
  LET critical == {i \in 1..Len(issues) : issues[i].severity = "critical"}
      blocked  == Cardinality(critical) > 1
  IN  [blocked |-> blocked,
       criticalUnresolved |-> Cardinality(critical),
       issues |-> SubSeq(issues, 1, IF Len(issues) < 50 THEN Len(issues) ELSE 50),
       recommendedActions |->
         IF blocked THEN <<"review", "fix_invalid_references", operation>>
         ELSE <<>>]

\* a faulty report: it looks for critical issues among the reported ones only
_build_qc_report_reported_only(issues, operation) ==
  LET reported == SubSeq(issues, 1, IF Len(issues) < 50 THEN Len(issues) ELSE 50)
      critical == {i \in 1..Len(reported) : reported[i].severity = "critical"}
      blocked  == Cardinality(critical) > 0
  IN  [blocked |-> blocked,
       criticalUnresolved |-> Cardinality(critical),
       issues |-> reported,
       recommendedActions |->
         IF blocked THEN <<"review", "fix_invalid_references", operation>>
         ELSE <<>>]

\* ExcelQcReport; recommendedActions is empty or names the operation to retry
_build_qc_report(issues, operation) ==
  LET critical == {i \in 1..Len(issues) : issues[i].severity = "critical"}
      blocked  == Cardinality(critical) > 0
  IN  [blocked |-> blocked,
       criticalUnresolved |-> Cardinality(critical),
       issues |-> SubSeq(issues, 1, IF Len(issues) < QcIssueLimit
                                    THEN Len(issues) ELSE QcIssueLimit),
       recommendedActions |->
         IF blocked THEN <<"review", "fix_invalid_references", operation>>
         ELSE <<>>]

(***************************************************************************)
(* Preflight Analyzer.                                                      *)
(***************************************************************************)
\* CellWarning with its CellReference and details
Warning(sheet_name, change, addr, warning_type, details) ==
  [sheet |-> sheet_name, row |-> change.row, col |-> change.col, address |-> addr,
   warning_type |-> warning_type,
   current_formula |-> details.current_formula,
   overwrite_allowed |-> details.overwrite_allowed,
   referenced_by |-> details.referenced_by,
   total_references |-> details.total_references,
   named_range |-> details.named_range]

NoDetails ==
  [current_formula |-> NoneV, overwrite_allowed |-> FALSE, referenced_by |-> <<>>,
   total_references |-> 0, named_range |-> <<>>]

\* changing_cells: a dict keeps a key at the place of its first insertion and
\* the value of its last one
RECURSIVE ChangingCellsFrom(_, _)
ChangingCellsFrom(changes, acc) ==
  IF changes = <<>> THEN acc
  ELSE LET change == Head(changes)
           addr   == Address(change.row, change.col)
           entry  == [addr |-> addr, change |-> change]
       IN  IF change.row < 1 \/ change.col < 1
           THEN ChangingCellsFrom(Tail(changes), acc)
           ELSE IF \E i \in 1..Len(acc) : acc[i].addr = addr
                THEN ChangingCellsFrom(
                       Tail(changes),
                       [i \in 1..Len(acc) |->
                          IF acc[i].addr = addr THEN entry ELSE acc[i]])
                ELSE ChangingCellsFrom(Tail(changes), Append(acc, entry))

\* Check 1: direct formula overwrites
RECURSIVE FormulaOverwriteWarnings(_, _, _)
FormulaOverwriteWarnings(ws, sheet_name, cc) ==
  IF cc = <<>> THEN <<>>
  ELSE LET change == Head(cc).change
           cell   == CellValue(ws, change.row, change.col)
       IN  (IF IsFormulaValue(cell)
            THEN <<Warning(sheet_name, change, Head(cc).addr, "contains_formula",
                           [NoDetails EXCEPT
                              !.current_formula = cell,
                              !.overwrite_allowed = change.forceOverwriteFormula])>>
            ELSE <<>>)
           \o FormulaOverwriteWarnings(ws, sheet_name, Tail(cc))

\* whether one reference of a formula on formula_sheet covers address addr of
\* the target sheet
SplitCovers(sr, target_sheet_normalized, addr) ==
  /\ Lower(_normalize_sheet_name(sr[1])) = target_sheet_normalized
  /\ \E a \in SeqToSet(_expand_range(sr[2])) : RemoveChar(a, "$") = addr

\* the source address recorded for a referencing formula cell
SourceAddr(fc, target_sheet_normalized) ==
  IF Lower(_normalize_sheet_name(fc.sheet)) # target_sheet_normalized
  THEN fc.sheet \o <<"!">> \o Address(fc.row, fc.col)
  ELSE Address(fc.row, fc.col)

\* set(referenced_by[addr])
ReferencingCells(fcs, target_sheet_normalized, addr) ==
  {SourceAddr(fcs[i], target_sheet_normalized) :
     i \in {j \in 1..Len(fcs) :
              \E ref \in SeqToSet(_parse_cell_references_from_formula(fcs[j].formula)) :
                SplitCovers(_split_sheet_and_range(ref, fcs[j].sheet),
                            target_sheet_normalized, addr)}}

ReferencedByLimit == 10

\* Check 2: references from formulas in any worksheet
\* the warning of one changing cell that unique_refs reference, if any do
ReferencedByWarning(sheet_name, entry, unique_refs) ==
  IF unique_refs # <<>>
  THEN <<Warning(sheet_name, entry.change, entry.addr, "referenced_by_formula",
                 [NoDetails EXCEPT
                    !.referenced_by =
                      SubSeq(unique_refs, 1,
                             IF Len(unique_refs) < ReferencedByLimit
                             THEN Len(unique_refs) ELSE ReferencedByLimit),
                    !.total_references = Len(unique_refs)])>>
  ELSE <<>>

RECURSIVE ReferencedByWarnings(_, _, _, _)
ReferencedByWarnings(fcs, sheet_name, target_sheet_normalized, cc) ==
  IF cc = <<>> THEN <<>>
  ELSE ReferencedByWarning(
         sheet_name, Head(cc),
         SortedStrings(ReferencingCells(fcs, target_sheet_normalized, Head(cc).addr)))
       \o ReferencedByWarnings(fcs, sheet_name, target_sheet_normalized, Tail(cc))

\* the in_named_range warnings of one destination of one defined name
RECURSIVE NamedRangeHits(_, _, _, _)
NamedRangeHits(expanded, name, sheet_name, cc) ==
  IF expanded = <<>> THEN <<>>
  ELSE LET clean_addr == RemoveChar(Head(expanded), "$")
           hit == {i \in 1..Len(cc) : cc[i].addr = clean_addr}
       IN  (IF hit # {}
            THEN <<Warning(sheet_name, cc[CHOOSE i \in hit : TRUE].change, clean_addr,
                           "in_named_range",
                           [NoDetails EXCEPT !.named_range = name])>>
            ELSE <<>>)
           \o NamedRangeHits(Tail(expanded), name, sheet_name, cc)

RECURSIVE DestinationWarnings(_, _, _, _, _)
DestinationWarnings(dests, name, sheet_name, target_sheet_normalized, cc) ==
  IF dests = <<>> THEN <<>>
  ELSE (IF Lower(_normalize_sheet_name(Head(dests)[1])) = target_sheet_normalized
        THEN NamedRangeHits(_expand_range(Head(dests)[2]), name, sheet_name, cc)
        ELSE <<>>)
       \o DestinationWarnings(Tail(dests), name, sheet_name,
                              target_sheet_normalized, cc)

\* Check 3: workbook defined names
RECURSIVE NamedRangeWarnings(_, _, _, _)
NamedRangeWarnings(defined_names, sheet_name, target_sheet_normalized, cc) ==
  IF defined_names = <<>> THEN <<>>
  ELSE DestinationWarnings(Head(defined_names).destinations,
                           Head(defined_names).name, sheet_name,
                           target_sheet_normalized, cc)
       \o NamedRangeWarnings(Tail(defined_names), sheet_name,
                             target_sheet_normalized, cc)

\* the three checks over the changing cells cc, in the order the code runs them
PreflightChecks(wb, sheet_name, target_sheet_normalized, cc) ==
  FormulaOverwriteWarnings(wb.sheets[SheetIndex(wb, sheet_name)], sheet_name, cc)
  \o ReferencedByWarnings(FormulaCells(wb), sheet_name, target_sheet_normalized, cc)
  \o NamedRangeWarnings(wb.defined_names, sheet_name, target_sheet_normalized, cc)

_collect_preflight_warnings(wb, sheet_name, changes) ==
  PreflightChecks(wb, sheet_name, Lower(_normalize_sheet_name(sheet_name)),
                  ChangingCellsFrom(changes, <<>>))

\* a faulty report: only the global allow_formula_overwrite flag lifts the
\* block of a formula overwrite, the flag of the change itself does not
_build_preflight_report_global_only(warnings, strict_formula_mode, block_referenced_by_formula, allow_formula_overwrite) ==
  LET blocked_by_formula_overwrite ==
        \E i \in 1..Len(warnings) :
          /\ warnings[i].warning_type = "contains_formula"
          /\ strict_formula_mode
          /\ ~allow_formula_overwrite
      blocked_by_formula_reference ==
        \E i \in 1..Len(warnings) :
          /\ warnings[i].warning_type = "referenced_by_formula"
          /\ block_referenced_by_formula
      safe_to_apply ==
        ~(blocked_by_formula_overwrite \/ blocked_by_formula_reference)
  IN  [status |-> IF safe_to_apply THEN "ok" ELSE "blocked",
       warnings |-> warnings,
       safe_to_apply |-> safe_to_apply,
       blocked_by_formula_overwrite |-> blocked_by_formula_overwrite,
       blocked_by_formula_reference |-> blocked_by_formula_reference]

\* ExcelValidationResponse
_build_preflight_report(warnings, strict_formula_mode, block_referenced_by_formula, allow_formula_overwrite) ==
  LET blocked_by_formula_overwrite ==
        \E i \in 1..Len(warnings) :
          /\ warnings[i].warning_type = "contains_formula"
          /\ strict_formula_mode
          /\ ~(warnings[i].overwrite_allowed \/ allow_formula_overwrite)
      blocked_by_formula_reference ==
        \E i \in 1..Len(warnings) :
          /\ warnings[i].warning_type = "referenced_by_formula"
          /\ block_referenced_by_formula
      safe_to_apply ==
        ~(blocked_by_formula_overwrite \/ blocked_by_formula_reference)
  IN  [status |-> IF safe_to_apply THEN "ok" ELSE "blocked",
       warnings |-> warnings,
       safe_to_apply |-> safe_to_apply,
       blocked_by_formula_overwrite |-> blocked_by_formula_overwrite,
       blocked_by_formula_reference |-> blocked_by_formula_reference]

(***************************************************************************)
(* LLM repair model selection.                                              *)
(***************************************************************************)
\* An Optional[str] is <<>> for None and <<id>> for the string id.  The truth
\* test `if model_id` fails for None and for the empty string.
\* the for loop with its first candidate left out of the search when it is
\* set but not configured
_resolve_llm_qc_model_id_request_hides(configured_models, requested_model_id, valve_model_id, fallback_model_id) ==
  IF requested_model_id # <<>> /\ requested_model_id # <<"">>
  THEN (IF requested_model_id[1] \in configured_models
        THEN <<requested_model_id, <<"request">> >> ELSE << <<>>, <<>> >>)
  ELSE IF valve_model_id # <<>> /\ valve_model_id # <<"">> /\ valve_model_id[1] \in configured_models
  THEN <<valve_model_id, <<"valve">> >>
  ELSE IF fallback_model_id # <<>> /\ fallback_model_id # <<"">> /\ fallback_model_id[1] \in configured_models
  THEN <<fallback_model_id, <<"fallback">> >>
  ELSE << <<>>, <<>> >>

\* <<model_id, source>>, both Optional[str]; configured_models is the set of
\* the dict's keys
_resolve_llm_qc_model_id(configured_models, requested_model_id, valve_model_id, fallback_model_id) ==
  IF requested_model_id # <<>> /\ requested_model_id # <<"">> /\ requested_model_id[1] \in configured_models
  THEN <<requested_model_id, <<"request">> >>
  ELSE IF valve_model_id # <<>> /\ valve_model_id # <<"">> /\ valve_model_id[1] \in configured_models
  THEN <<valve_model_id, <<"valve">> >>
  ELSE IF fallback_model_id # <<>> /\ fallback_model_id # <<"">> /\ fallback_model_id[1] \in configured_models
  THEN <<fallback_model_id, <<"fallback">> >>
  ELSE << <<>>, <<>> >>

(***************************************************************************)
(* Files.  A path holds no file ("absent"), the empty file mkstemp creates  *)
(* ("empty"), a workbook file ("xlsx") or bytes that are no workbook        *)
(* ("broken": a write that stopped part-way, or one openpyxl cannot read    *)
(* back).                                                                   *)
(***************************************************************************)
NoWb == [sheetnames |-> <<>>, sheets |-> <<>>, defined_names |-> <<>>]

Absent == [k |-> "absent", wb |-> NoWb]

Broken == [k |-> "broken", wb |-> NoWb]

\* wb.save(path): the writer stores no cell whose value is None, and stores a
\* str of two or more characters that starts with "=" as a formula cell, its
\* text without the first "="
SavedFile(w) ==
  [k |-> "xlsx",
   wb |-> [w EXCEPT !.sheets =
             [si \in DOMAIN w.sheets |->
                [c \in {d \in DOMAIN w.sheets[si] : w.sheets[si][d] # NoneV}
                   |-> IF IsFormulaValue(w.sheets[si][c]) /\ Len(w.sheets[si][c].s) > 1
                       THEN [t |-> "f", s |-> Tail(w.sheets[si][c].s)]
                       ELSE w.sheets[si][c]]]]]

\* openpyxl.load_workbook(path) succeeds
Loadable(file) == file.k = "xlsx"

\* the workbook openpyxl.load_workbook(path) returns: the value of a formula
\* cell is "=" followed by its stored text
load_workbook(file) ==
  [file.wb EXCEPT !.sheets =
     [si \in DOMAIN file.wb.sheets |->
        [c \in DOMAIN file.wb.sheets[si] |->
           IF file.wb.sheets[si][c].t = "f"
           THEN StrV(<<"=">> \o file.wb.sheets[si][c].s)
           ELSE file.wb.sheets[si][c]]]]

(***************************************************************************)
(* The workbooks and requests the model runs.                               *)
(***************************************************************************)
S1 == <<"S", "1">>

S2 == <<"S", "2">>

DefinedNames == << [name |-> <<"N">>, destinations |-> << <<S1, <<"$","A","$","1",":","$","A","$","2">> >> >>] >>

\* S1: A1 = 10, A2 = 20; S2: A1 = "=S1!A1+1"
WbClean ==
  [sheetnames |-> <<S1, S2>>,
   sheets |-> << (<<1, 1>> :> IntV(10)) @@ (<<2, 1>> :> IntV(20)),
                 (<<1, 1>> :> StrV(<<"=","S","1","!","A","1","+","1">>)) >>,
   defined_names |-> DefinedNames]

\* S1: A1 = 10, A2 = "==A1" (the double-equals corruption); S2: A1 = 7
WbRepairable ==
  [sheetnames |-> <<S1, S2>>,
   sheets |-> << (<<1, 1>> :> IntV(10)) @@ (<<2, 1>> :> StrV(<<"=","=","A","1">>)),
                 (<<1, 1>> :> IntV(7)) >>,
   defined_names |-> DefinedNames]

\* S1: A1 = 10, A2 = "==A1"; S2: A1 = "=#REF!+1": a repairable formula beside
\* a critical one
WbCritical ==
  [sheetnames |-> <<S1, S2>>,
   sheets |-> << (<<1, 1>> :> IntV(10)) @@ (<<2, 1>> :> StrV(<<"=","=","A","1">>)),
                 (<<1, 1>> :> StrV(<<"=","#","R","E","F","!","+","1">>)) >>,
   defined_names |-> DefinedNames]

Procs == {"p1", "p2"}

FileIds == {"f1", "f2"}

\* ExcelUpdateRequest / ExcelValidationRequest / ExcelDownloadReadyRequest
Request(op, fileId, sheet, changes, strict, blockRef, allow, llm) ==
  [op |-> op, fileId |-> fileId, sheet |-> sheet, changes |-> changes,
   strictFormulaMode |-> strict, blockReferencedByFormula |-> blockRef,
   allowFormulaOverwrite |-> allow, allowLlmRepair |-> llm]

NoRequest == Request("none", "f1", <<>>, <<>>, FALSE, FALSE, FALSE, FALSE)

\* S1!A1 := "101" (a str the applicator coerces), references do not block
UpdateA1 ==
  Request("update", "f1", S1,
          <<Change(1, 1, StrV(<<"1","0","1">>), FALSE, FALSE)>>,
          TRUE, FALSE, FALSE, FALSE)

\* S1!A2 := 202, references do not block
UpdateA2 ==
  Request("update", "f1", S1, <<Change(2, 1, IntV(202), FALSE, FALSE)>>,
          TRUE, FALSE, FALSE, FALSE)

\* S1!A1 := 5 with the default policy (references block)
UpdateStrict ==
  Request("update", "f1", S1, <<Change(1, 1, IntV(5), FALSE, FALSE)>>,
          TRUE, TRUE, FALSE, FALSE)

\* a sheet the workbook does not have
UpdateNoSheet ==
  Request("update", "f1", <<"S", "9">>, <<Change(1, 1, IntV(5), FALSE, FALSE)>>,
          TRUE, TRUE, FALSE, FALSE)

\* S1!A2 twice in one request: first without the force flag, then with it
UpdateTwice ==
  Request("update", "f1", S1,
          <<Change(2, 1, IntV(7), FALSE, FALSE), Change(2, 1, IntV(202), FALSE, TRUE)>>,
          TRUE, FALSE, FALSE, FALSE)

UpdateOther ==
  Request("update", "f2", S1, <<Change(1, 1, IntV(5), FALSE, FALSE)>>,
          TRUE, FALSE, FALSE, FALSE)

Download1 == Request("download", "f1", <<>>, <<>>, TRUE, TRUE, FALSE, FALSE)

\* download-ready that asks for the LLM repair model selection
DownloadLlm == Request("download", "f1", <<>>, <<>>, TRUE, TRUE, FALSE, TRUE)

Validate1 ==
  Request("validate", "f1", S1, <<Change(1, 1, IntV(5), FALSE, FALSE)>>,
          TRUE, TRUE, FALSE, FALSE)

\* validate for a sheet the workbook does not have
ValidateNoSheet ==
  Request("validate", "f1", <<"S", "9">>, <<Change(1, 1, IntV(5), FALSE, FALSE)>>,
          TRUE, TRUE, FALSE, FALSE)

Requests ==
  {UpdateA1, UpdateA2, UpdateTwice, UpdateStrict, UpdateNoSheet, UpdateOther,
   Download1, DownloadLlm, Validate1, ValidateNoSheet}

(***************************************************************************)
(* State.                                                                   *)
(*                                                                          *)
(* Every request runs as a task of the event loop.  A task is at one of the *)
(* positions of its endpoint (pc) and the tasks take their steps in any     *)
(* order: one step is one file operation or one lock operation, with the    *)
(* in-memory work that precedes it.  This includes every schedule of the    *)
(* event loop, which switches tasks at an await only, and every schedule in *)
(* which a blocking file operation lets another task run.                   *)
(***************************************************************************)
VARIABLES
  pc,         \* where each client task stands in its endpoint
  req,        \* the request each task is serving
  nreq,       \* how many requests the tasks have issued so far
  wb,         \* the workbook each task holds in memory
  loc,        \* the local variables of each task's endpoint
  resp,       \* the last response each task received
  disk,       \* the file stored at each document's path
  tmp,        \* the temporary file each task's persist created
  bak,        \* the sibling backup file of each document
  meta,       \* the metadata sink: the last payload stored per document
  lockTable,  \* _EXCEL_FILE_LOCKS: file id -> index into locks, 0 when absent
  locks,      \* the asyncio.Lock objects created so far
  guard,      \* _EXCEL_FILE_LOCKS_GUARD
  lk,         \* the lock _get_excel_file_lock returned to each task, 0 before
  call,       \* the call of a function on its own: its name and arguments
  ret         \* what that call returned, None before it returns

vars ==
  <<pc, req, nreq, wb, loc, resp, disk, tmp, bak, meta, lockTable, locks, guard, lk,
    call, ret>>

\* asyncio.Lock(): unlocked, nobody waiting
NewLock == [owner |-> "none", waiters |-> <<>>]

\* Optional values: None is <<>>, a value x is <<x>>
None == <<>>

Some(x) == <<x>>

\* the endpoint's locals at its start.  pre, loaded, verified, waited and did
\* record what the task has observed and done, for the properties below.
InitLoc ==
  [preflight_report |-> None, qc_report |-> None, repairs_applied |-> 0,
   changes_applied |-> 0, metadata_updated |-> None, exc |-> "",
   pre |-> Absent, loaded |-> Absent, verified |-> FALSE, waited |-> FALSE,
   did |-> {}]

NoResponse ==
  [status |-> "none", code |-> 0, preflightReport |-> None, qcReport |-> None,
   repairsApplied |-> 0, metadataUpdated |-> None, changesApplied |-> 0,
   selectedLlmModelId |-> None, selectedLlmModelSource |-> None]

\* an HTTPException raised to the caller
ErrorResponse(code) == [NoResponse EXCEPT !.status = "error", !.code = code]

NoMeta ==
  [operation |-> "none", changes_applied |-> 0, repairs_applied |-> 0,
   blocked |-> FALSE, criticalUnresolved |-> 0, issueCount |-> 0,
   sheetNames |-> <<>>, activeSheet |-> <<>>]

\* no function is called on its own while the endpoints run
Init ==
  /\ call = [fn |-> "none"]
  /\ ret = None
  /\ pc = [p \in Procs |-> "idle"]
  /\ req = [p \in Procs |-> NoRequest]
  /\ nreq = 0
  /\ wb = [p \in Procs |-> NoWb]
  /\ loc = [p \in Procs |-> InitLoc]
  /\ resp = [p \in Procs |-> NoResponse]
  /\ \E w \in {WbClean, WbRepairable, WbCritical} :
       disk = [f \in FileIds |->
                 IF f = "f1" THEN SavedFile(w) ELSE SavedFile(WbRepairable)]
  /\ tmp = [p \in Procs |-> Absent]
  /\ bak = [f \in FileIds |-> Absent]
  /\ meta = [f \in FileIds |-> NoMeta]
  /\ lockTable = [f \in FileIds |-> 0]
  /\ locks = <<>>
  /\ guard = NewLock
  /\ lk = [p \in Procs |-> 0]

Fid(p) == req[p].fileId

(***************************************************************************)
(* asyncio.Lock.                                                            *)
(***************************************************************************)
\* a faulty acquire(): it takes the lock whoever holds it
AcquireBarging(l, p) == [l EXCEPT !.owner = p]

\* a faulty acquire(): a free lock is taken at once, also when a woken waiter
\* is due to get it
AcquireOvertaking(l, p) ==
  IF l.owner = "none" THEN [l EXCEPT !.owner = p]
  ELSE [l EXCEPT !.waiters = Append(@, p)]

\* acquire() by task p: take the lock when it is free and nobody waits for
\* it, else join the FIFO of waiters
Acquire(l, p) ==
  IF l.owner = "none" /\ l.waiters = <<>> THEN [l EXCEPT !.owner = p]
  ELSE [l EXCEPT !.waiters = Append(@, p)]

\* release() wakes the first waiter, which then takes the lock
CanWake(l, p) == l.owner = "none" /\ l.waiters # <<>> /\ Head(l.waiters) = p

Wake(l, p) == [l EXCEPT !.owner = p, !.waiters = Tail(@)]

Release(l) == [l EXCEPT !.owner = "none"]

\* a faulty lock table: it creates a lock on every call and replaces the entry
LockForFresh(table, ls, file_id) ==
  [table |-> [table EXCEPT ![file_id] = Len(ls) + 1],
   locks |-> Append(ls, NewLock),
   lock  |-> Len(ls) + 1]

\* the body of _get_excel_file_lock under the guard: the table and the locks
\* after it, and the lock it returns
LockFor(table, ls, file_id) ==
  IF table[file_id] = 0
  THEN [table |-> [table EXCEPT ![file_id] = Len(ls) + 1],
        locks |-> Append(ls, NewLock),
        lock  |-> Len(ls) + 1]
  ELSE [table |-> table, locks |-> ls, lock |-> table[file_id]]

\* a faulty exit: the lock is released on return only, not when an exception
\* leaves the block
ExitLockOnReturnOnly(ls, l, how) ==
  IF how = "return" THEN [ls EXCEPT ![l] = Release(@)] ELSE ls

\* leaving `async with lock:`; how is "return" or "raise"
ExitLock(ls, l, how) == [ls EXCEPT ![l] = Release(@)]

(***************************************************************************)
(* Entering an endpoint and obtaining the document's lock.                  *)
(***************************************************************************)
\* A client task sends request r.  The endpoint finds the stored file
\* (file_path.is_file()) before anything else; validate goes on to load the
\* workbook, update and download-ready go on to _get_excel_file_lock.
Begin(p, r) ==
  /\ pc[p] = "idle"
  /\ req' = [req EXCEPT ![p] = r]
  /\ loc' = [loc EXCEPT ![p] = InitLoc]
  /\ wb' = [wb EXCEPT ![p] = NoWb]
  /\ lk' = [lk EXCEPT ![p] = 0]
  /\ IF disk[r.fileId].k = "absent"
     THEN /\ resp' = [resp EXCEPT ![p] = ErrorResponse(404)]
          /\ pc' = pc
     ELSE /\ resp' = [resp EXCEPT ![p] = NoResponse]
          /\ pc' = [pc EXCEPT ![p] = IF r.op = "validate" THEN "v_load" ELSE "get_lock"]
  /\ UNCHANGED <<call, ret, disk, tmp, bak, meta, lockTable, locks, guard>>

\* the requests of one run are counted, up to MaxReqs
Start(p, r) ==
  /\ nreq < MaxReqs
  /\ nreq' = nreq + 1
  /\ Begin(p, r)

\* async with _EXCEL_FILE_LOCKS_GUARD: (entering)
GetLock(p) ==
  /\ pc[p] = "get_lock"
  /\ guard' = Acquire(guard, p)
  /\ pc' = [pc EXCEPT ![p] =
              IF Acquire(guard, p).owner = p THEN "in_guard" ELSE "guard_wait"]
  /\ UNCHANGED <<call, ret, req, nreq, wb, loc, resp, disk, tmp, bak, meta, lockTable, locks, lk>>

GuardWake(p) ==
  /\ pc[p] = "guard_wait"
  /\ CanWake(guard, p)
  /\ guard' = Wake(guard, p)
  /\ pc' = [pc EXCEPT ![p] = "in_guard"]
  /\ UNCHANGED <<call, ret, req, nreq, wb, loc, resp, disk, tmp, bak, meta, lockTable, locks, lk>>

\* the body under the guard: look the lock up, insert it when missing, leave
\* the guard and return the lock
GuardBody(p) ==
  /\ pc[p] = "in_guard"
  /\ LET got == LockFor(lockTable, locks, Fid(p))
     IN  /\ lockTable' = got.table
         /\ locks' = got.locks
         /\ lk' = [lk EXCEPT ![p] = got.lock]
  /\ guard' = Release(guard)
  /\ pc' = [pc EXCEPT ![p] = "acquire"]
  /\ UNCHANGED <<call, ret, req, nreq, wb, loc, resp, disk, tmp, bak, meta>>

\* async with lock: (entering)
AcquireLock(p) ==
  /\ pc[p] = "acquire"
  /\ locks' = [locks EXCEPT ![lk[p]] = Acquire(@, p)]
  /\ pc' = [pc EXCEPT ![p] =
              IF Acquire(locks[lk[p]], p).owner = p THEN "load" ELSE "lock_wait"]
  /\ loc' = [loc EXCEPT ![p].waited = Acquire(locks[lk[p]], p).owner # p]
  /\ UNCHANGED <<call, ret, req, nreq, wb, resp, disk, tmp, bak, meta, lockTable, guard, lk>>

LockWake(p) ==
  /\ pc[p] = "lock_wait"
  /\ CanWake(locks[lk[p]], p)
  /\ locks' = [locks EXCEPT ![lk[p]] = Wake(@, p)]
  /\ pc' = [pc EXCEPT ![p] = "load"]
  /\ UNCHANGED <<call, ret, req, nreq, wb, loc, resp, disk, tmp, bak, meta, lockTable, guard, lk>>

(***************************************************************************)
(* Leaving the critical section.                                            *)
(***************************************************************************)
\* The endpoint leaves `async with lock:` by an exception, which its handlers
\* turn into an HTTPException with this status code.  The finally clause has
\* closed the workbook.
RaiseOut(p, code) ==
  /\ locks' = ExitLock(locks, lk[p], "raise")
  /\ wb' = [wb EXCEPT ![p] = NoWb]
  /\ resp' = [resp EXCEPT ![p] = ErrorResponse(code)]
  /\ pc' = [pc EXCEPT ![p] = "idle"]

\* the status code of an exception that leaves the critical section: update
\* answers a ValueError with 400 and anything else with 500, download-ready
\* answers everything with 400
ErrorCode(p, exc) ==
  IF req[p].op = "download" THEN 400
  ELSE IF exc = "ValueError" THEN 400 ELSE 500

\* The update endpoint returns response r from inside `async with lock:`.
ReturnOut(p, r) ==
  /\ locks' = ExitLock(locks, lk[p], "return")
  /\ wb' = [wb EXCEPT ![p] = NoWb]
  /\ resp' = [resp EXCEPT ![p] = r]
  /\ pc' = [pc EXCEPT ![p] = "idle"]

(***************************************************************************)
(* Loading and the in-memory steps.                                         *)
(***************************************************************************)
\* wb = openpyxl.load_workbook(file_path, **load_kwargs) under the lock
Load(p) ==
  /\ pc[p] = "load"
  /\ IF Loadable(disk[Fid(p)])
     THEN /\ wb' = [wb EXCEPT ![p] = load_workbook(disk[Fid(p)])]
          /\ loc' = [loc EXCEPT ![p].loaded = disk[Fid(p)]]
          /\ pc' = [pc EXCEPT ![p] = "compute"]
          /\ UNCHANGED <<resp, locks>>
     ELSE /\ RaiseOut(p, ErrorCode(p, "BadZipFile"))
          /\ loc' = [loc EXCEPT ![p].loaded = disk[Fid(p)], ![p].exc = "BadZipFile"]
  /\ UNCHANGED <<call, ret, req, nreq, disk, tmp, bak, meta, lockTable, guard, lk>>

\* a faulty update: after a clean QC it goes to the metadata update without
\* persisting the workbook
UpdateAfterQcSkipPersist(p, report, applied, qc, qc_report) ==
  /\ loc' = [loc EXCEPT ![p].preflight_report = Some(report),
                        ![p].changes_applied = applied.changes_applied,
                        ![p].qc_report = Some(qc_report),
                        ![p].repairs_applied = qc.repairs_applied,
                        ![p].did = @ \cup {"preflight", "apply", "qc"}]
  /\ wb' = [wb EXCEPT ![p] = qc.wb]
  /\ pc' = [pc EXCEPT ![p] = "meta"]
  /\ UNCHANGED <<call, ret, resp, locks>>

\* update after QC: a blocked QC report returns without writing anything,
\* otherwise the workbook goes on to _persist_workbook_atomically
UpdateAfterQc(p, report, applied, qc, qc_report) ==
  /\ loc' = [loc EXCEPT ![p].preflight_report = Some(report),
                        ![p].changes_applied = applied.changes_applied,
                        ![p].qc_report = Some(qc_report),
                        ![p].repairs_applied = qc.repairs_applied,
                        ![p].did = @ \cup {"preflight", "apply", "qc"}]
  /\ IF qc_report.blocked
     THEN ReturnOut(p, [NoResponse EXCEPT
                          !.status = "blocked",
                          !.code = 200,
                          !.preflightReport = Some(report),
                          !.qcReport = Some(qc_report),
                          !.repairsApplied = qc.repairs_applied,
                          !.metadataUpdated = Some(FALSE)])
     ELSE /\ wb' = [wb EXCEPT ![p] = qc.wb]
          /\ pc' = [pc EXCEPT ![p] = "p_mkstemp"]
          /\ UNCHANGED <<resp, locks>>

UpdateQc(p, report, applied, qc) ==
  UpdateAfterQc(p, report, applied, qc, _build_qc_report(qc.issues, "save"))

\* update after the mutation: _run_formula_qc_and_repairs on the workbook
UpdateAfterApply(p, report, applied) ==
  UpdateQc(p, report, applied,
           _run_formula_qc_and_repairs(
             [wb[p] EXCEPT !.sheets[SheetIndex(wb[p], req[p].sheet)] = applied.ws]))

\* a faulty update: the changes are applied whatever the preflight report says
UpdateIgnoringPreflight(p, report) ==
  UpdateAfterApply(p, report,
    _apply_worksheet_changes(wb[p].sheets[SheetIndex(wb[p], req[p].sheet)],
                             req[p].changes))

\* update after preflight: a blocked report returns before any mutation,
\* otherwise _apply_worksheet_changes runs on the target sheet
UpdateAfterPreflight(p, report) ==
  IF ~report.safe_to_apply
  THEN /\ ReturnOut(p, [NoResponse EXCEPT !.status = "blocked",
                                          !.code = 200,
                                          !.preflightReport = Some(report)])
       /\ loc' = [loc EXCEPT ![p].preflight_report = Some(report),
                             ![p].did = @ \cup {"preflight"}]
  ELSE UpdateAfterApply(p, report,
         _apply_worksheet_changes(wb[p].sheets[SheetIndex(wb[p], req[p].sheet)],
                                  req[p].changes))

\* update: sheet lookup, preflight, mutation and QC on the loaded workbook
ComputeUpdate(p) ==
  /\ pc[p] = "compute"
  /\ req[p].op = "update"
  /\ IF ~HasSheet(wb[p], req[p].sheet)
     THEN /\ RaiseOut(p, ErrorCode(p, "ValueError"))
          /\ loc' = [loc EXCEPT ![p].exc = "ValueError"]
     ELSE UpdateAfterPreflight(p,
            _build_preflight_report(
              _collect_preflight_warnings(wb[p], req[p].sheet, req[p].changes),
              req[p].strictFormulaMode, req[p].blockReferencedByFormula,
              req[p].allowFormulaOverwrite))
  /\ UNCHANGED <<call, ret, req, nreq, disk, tmp, bak, meta, lockTable, guard, lk>>

\* a faulty download-ready: a repaired workbook is not persisted
DownloadAfterQcNoPersist(p, qc, qc_report) ==
  /\ wb' = [wb EXCEPT ![p] = qc.wb]
  /\ loc' = [loc EXCEPT ![p].qc_report = Some(qc_report),
                        ![p].repairs_applied = qc.repairs_applied,
                        ![p].did = @ \cup {"qc"}]
  /\ pc' = [pc EXCEPT ![p] = "meta"]

\* download-ready after QC: one of three branches
DownloadAfterQc(p, qc, qc_report) ==
  /\ wb' = [wb EXCEPT ![p] = qc.wb]
  /\ loc' = [loc EXCEPT ![p].qc_report = Some(qc_report),
                        ![p].repairs_applied = qc.repairs_applied,
                        ![p].did = @ \cup {"qc"}]
  /\ pc' = [pc EXCEPT ![p] =
              IF qc_report.blocked THEN "meta"
              ELSE IF qc.repairs_applied > 0 THEN "p_mkstemp"
              ELSE "meta"]

DownloadQc(p, qc) == DownloadAfterQc(p, qc, _build_qc_report(qc.issues, "download"))

\* download-ready: QC on the loaded workbook
ComputeDownload(p) ==
  /\ pc[p] = "compute"
  /\ req[p].op = "download"
  /\ DownloadQc(p, _run_formula_qc_and_repairs(wb[p]))
  /\ UNCHANGED <<call, ret, req, nreq, resp, disk, tmp, bak, meta, lockTable, locks, guard, lk>>

(***************************************************************************)
(* Atomic Persistence Manager: _persist_workbook_atomically, one action per *)
(* file operation.  An operation of the file system either succeeds or      *)
(* fails; a copy that fails after it opened its destination leaves a        *)
(* partial file there.                                                      *)
(***************************************************************************)
\* a faulty persist: a temporary file that failed to load back is not a reason
\* to stop
PersistNextPastVerify(step, raised) ==
  IF raised /\ step # "verify"
  THEN (IF step = "replace" THEN "p_rollback" ELSE "p_cleanup")
  ELSE CASE step = "mkstemp" -> "p_save"
         [] step = "save"    -> "p_calc"
         [] step = "calc"    -> "p_verify"
         [] step = "verify"  -> "p_backup"
         [] step = "backup"  -> "p_replace"
         [] OTHER            -> "p_cleanup"

\* where _persist_workbook_atomically goes after a step: on in the try block,
\* into the rollback handler when os.replace raised, into the finally clause
\* when another step raised or after the rename
PersistNext(step, raised) ==
  IF raised THEN (IF step = "replace" THEN "p_rollback" ELSE "p_cleanup")
  ELSE CASE step = "mkstemp" -> "p_save"
         [] step = "save"    -> "p_calc"
         [] step = "calc"    -> "p_verify"
         [] step = "verify"  -> "p_backup"
         [] step = "backup"  -> "p_replace"
         [] OTHER            -> "p_cleanup"

\* tempfile.mkstemp beside the target
PMkstemp(p) ==
  /\ pc[p] = "p_mkstemp"
  /\ tmp' = [tmp EXCEPT ![p] = [k |-> "empty", wb |-> NoWb]]
  /\ loc' = [loc EXCEPT ![p].pre = disk[Fid(p)], ![p].did = @ \cup {"persist"}]
  /\ pc' = [pc EXCEPT ![p] = PersistNext("mkstemp", FALSE)]
  /\ UNCHANGED <<call, ret, req, nreq, wb, resp, disk, bak, meta, lockTable, locks, guard, lk>>

\* wb.save(tmp_path): writes the workbook, raises part-way, or writes a file
\* that cannot be read back
PSave(p) ==
  /\ pc[p] = "p_save"
  /\ \E outcome \in {"ok", "raise", "unreadable"} :
       /\ tmp' = [tmp EXCEPT ![p] = IF outcome = "ok" THEN SavedFile(wb[p]) ELSE Broken]
       /\ loc' = [loc EXCEPT ![p].exc = IF outcome = "raise" THEN "save" ELSE @]
       /\ pc' = [pc EXCEPT ![p] = PersistNext("save", outcome = "raise")]
  /\ UNCHANGED <<call, ret, req, nreq, wb, resp, disk, bak, meta, lockTable, locks, guard, lk>>

\* _remove_calc_chain_if_present(tmp_path): returns at once for a file that is
\* no zip archive; otherwise rewrites the archive without its calc chain (the
\* workbook it holds is the same) or raises
PCalc(p) ==
  /\ pc[p] = "p_calc"
  /\ \E raises \in BOOLEAN :
       /\ raises => Loadable(tmp[p])
       /\ loc' = [loc EXCEPT ![p].exc = IF raises THEN "calc" ELSE @]
       /\ pc' = [pc EXCEPT ![p] = PersistNext("calc", raises)]
  /\ UNCHANGED <<call, ret, req, nreq, wb, resp, disk, tmp, bak, meta, lockTable, locks, guard, lk>>

\* verify_wb = openpyxl.load_workbook(tmp_path, **load_kwargs)
PVerify(p) ==
  /\ pc[p] = "p_verify"
  /\ loc' = [loc EXCEPT ![p].verified = Loadable(tmp[p]),
                        ![p].exc = IF Loadable(tmp[p]) THEN @ ELSE "verify"]
  /\ pc' = [pc EXCEPT ![p] = PersistNext("verify", ~Loadable(tmp[p]))]
  /\ UNCHANGED <<call, ret, req, nreq, wb, resp, disk, tmp, bak, meta, lockTable, locks, guard, lk>>

\* shutil.copy2(file_path, backup_path)
PBackup(p) ==
  /\ pc[p] = "p_backup"
  /\ \E raises \in BOOLEAN :
       /\ bak' = [bak EXCEPT ![Fid(p)] = IF raises THEN Broken ELSE disk[Fid(p)]]
       /\ loc' = [loc EXCEPT ![p].exc = IF raises THEN "backup" ELSE @,
                             ![p].did = @ \cup {"backup"}]
       /\ pc' = [pc EXCEPT ![p] = PersistNext("backup", raises)]
  /\ UNCHANGED <<call, ret, req, nreq, wb, resp, disk, tmp, meta, lockTable, locks, guard, lk>>

\* os.replace(tmp_path, file_path): atomic, the target changes only when it
\* succeeds
PReplace(p) ==
  /\ pc[p] = "p_replace"
  /\ \E raises \in BOOLEAN :
       /\ disk' = [disk EXCEPT ![Fid(p)] = IF raises THEN @ ELSE tmp[p]]
       /\ tmp' = [tmp EXCEPT ![p] = IF raises THEN @ ELSE Absent]
       /\ loc' = [loc EXCEPT ![p].exc = IF raises THEN "replace" ELSE @,
                             ![p].did = @ \cup {"replace"}]
       /\ pc' = [pc EXCEPT ![p] = PersistNext("replace", raises)]
  /\ UNCHANGED <<call, ret, req, nreq, wb, resp, bak, meta, lockTable, locks, guard, lk>>

\* with suppress(Exception): shutil.copy2(backup_path, file_path), first half:
\* copy2 opens the target for writing, which truncates it, or cannot open it
\* and leaves it untouched; suppress swallows the error
PRollback(p) ==
  /\ pc[p] = "p_rollback"
  /\ \E opened \in BOOLEAN :
       /\ disk' = [disk EXCEPT ![Fid(p)] = IF opened THEN Broken ELSE @]
       /\ pc' = [pc EXCEPT ![p] = IF opened THEN "p_rollback_copy" ELSE "p_cleanup"]
  /\ loc' = [loc EXCEPT ![p].did = @ \cup {"rollback"}]
  /\ UNCHANGED <<call, ret, req, nreq, wb, resp, tmp, bak, meta, lockTable, locks, guard, lk>>

\* second half of the rollback copy: the target receives the backup's bytes,
\* or keeps the part written when the copy fails; then `raise` re-raises the
\* rename's error
PRollbackCopy(p) ==
  /\ pc[p] = "p_rollback_copy"
  /\ \E completes \in BOOLEAN :
       disk' = [disk EXCEPT ![Fid(p)] = IF completes THEN bak[Fid(p)] ELSE @]
  /\ pc' = [pc EXCEPT ![p] = "p_cleanup"]
  /\ UNCHANGED <<call, ret, req, nreq, wb, loc, resp, tmp, bak, meta, lockTable, locks, guard, lk>>

\* finally: unlink the temporary and the backup file, each if it exists and
\* each under suppress(Exception): an unlink that raises leaves its file
\* where it is ("tmp_left", "bak_left" in did).  Then the exception of the
\* failed step, if any, leaves the critical section.
PCleanup(p) ==
  /\ pc[p] = "p_cleanup"
  /\ \E tmp_unlinked \in BOOLEAN, bak_unlinked \in BOOLEAN :
       /\ tmp' = [tmp EXCEPT ![p] = IF tmp_unlinked THEN Absent ELSE @]
       /\ bak' = [bak EXCEPT ![Fid(p)] = IF bak_unlinked THEN Absent ELSE @]
       /\ loc' = [loc EXCEPT ![p].did =
                    @ \cup (IF tmp_unlinked \/ tmp[p] = Absent THEN {} ELSE {"tmp_left"})
                      \cup (IF bak_unlinked \/ bak[Fid(p)] = Absent THEN {} ELSE {"bak_left"})]
  /\ IF loc[p].exc # ""
     THEN RaiseOut(p, ErrorCode(p, loc[p].exc))
     ELSE /\ pc' = [pc EXCEPT ![p] = "meta"]
          /\ UNCHANGED <<wb, resp, locks>>
  /\ UNCHANGED <<call, ret, req, nreq, disk, meta, lockTable, guard, lk>>

(***************************************************************************)
(* Metadata sink and the responses.                                         *)
(***************************************************************************)
\* the operation name each branch passes to _update_excel_file_metadata
MetaOperation(p) ==
  IF req[p].op = "update" THEN "update"
  ELSE IF loc[p].qc_report[1].blocked THEN "download_ready_blocked"
  ELSE IF loc[p].repairs_applied > 0 THEN "download_ready_repair"
  ELSE "download_ready_check"

\* _build_excel_metadata_update
_build_excel_metadata_update(sheet_names, active_sheet, changes_applied, qc_report, operation, repairs_applied) ==
  [operation |-> operation, changes_applied |-> changes_applied,
   repairs_applied |-> repairs_applied, blocked |-> qc_report.blocked,
   criticalUnresolved |-> qc_report.criticalUnresolved,
   issueCount |-> Len(qc_report.issues),
   sheetNames |-> sheet_names, activeSheet |-> active_sheet]

\* the ExcelUpdateResponse of a completed update
UpdateOk(p, metadata_updated) ==
  [status |-> "ok", code |-> 200,
   preflightReport |-> loc[p].preflight_report, qcReport |-> loc[p].qc_report,
   repairsApplied |-> loc[p].repairs_applied,
   metadataUpdated |-> Some(metadata_updated),
   changesApplied |-> loc[p].changes_applied,
   selectedLlmModelId |-> None, selectedLlmModelSource |-> None]

\* _update_excel_file_metadata: the sink stores the payload, finds no row to
\* update (returns None), or raises
Meta(p) ==
  /\ pc[p] = "meta"
  /\ \E outcome \in {"stored", "none", "raise"} :
       /\ meta' = [meta EXCEPT ![Fid(p)] =
                     IF outcome = "stored"
                     THEN _build_excel_metadata_update(
                            wb[p].sheetnames, wb[p].sheetnames[1],
                            IF req[p].op = "update" THEN loc[p].changes_applied ELSE 0,
                            loc[p].qc_report[1], MetaOperation(p),
                            IF MetaOperation(p) = "download_ready_check"
                            THEN 0 ELSE loc[p].repairs_applied)
                     ELSE @]
       /\ loc' = [loc EXCEPT
                    ![p].metadata_updated =
                      IF outcome = "raise" THEN @ ELSE Some(outcome = "stored"),
                    ![p].exc = IF outcome = "raise" THEN "meta" ELSE @,
                    ![p].did = IF outcome = "stored" THEN @ \cup {"meta"} ELSE @]
       /\ IF outcome = "raise"
          THEN RaiseOut(p, ErrorCode(p, "meta"))
          ELSE IF req[p].op = "update"
               THEN ReturnOut(p, UpdateOk(p, outcome = "stored"))
               ELSE /\ locks' = ExitLock(locks, lk[p], "return")
                    /\ wb' = [wb EXCEPT ![p] = NoWb]
                    /\ pc' = [pc EXCEPT ![p] = "d_post"]
                    /\ UNCHANGED resp
  /\ UNCHANGED <<call, ret, req, nreq, disk, tmp, bak, lockTable, guard, lk>>

\* download-ready after the critical section.  The model-selection step is
\* entered under `if request.allowLlmRepair:` alone ("llm" in did).  Its
\* first statement reads request.app.state.MODELS; request is the
\* ExcelDownloadReadyRequest body, which has no attribute app, so the
\* AttributeError becomes a 500 and no response carries a selected model.
DownloadPost(p) ==
  /\ pc[p] = "d_post"
  /\ loc' = [loc EXCEPT ![p].did = IF req[p].allowLlmRepair THEN @ \cup {"llm"} ELSE @]
  /\ resp' = [resp EXCEPT ![p] =
               IF req[p].allowLlmRepair THEN ErrorResponse(500)
               ELSE [status |-> IF loc[p].qc_report[1].blocked THEN "blocked" ELSE "ok",
                     code |-> 200,
                     preflightReport |-> None,
                     qcReport |-> loc[p].qc_report,
                     repairsApplied |-> loc[p].repairs_applied,
                     metadataUpdated |-> loc[p].metadata_updated,
                     changesApplied |-> 0,
                     selectedLlmModelId |-> None,
                     selectedLlmModelSource |-> None]]
  /\ pc' = [pc EXCEPT ![p] = "idle"]
  /\ UNCHANGED <<call, ret, req, nreq, wb, disk, tmp, bak, meta, lockTable, locks, guard, lk>>

(***************************************************************************)
(* validate.                                                                *)
(***************************************************************************)
\* wb = openpyxl.load_workbook(file_path, ...): validate_excel_changes calls
\* it without taking the document's lock
ValidateLoad(p) ==
  /\ pc[p] = "v_load"
  /\ loc' = [loc EXCEPT ![p].loaded = disk[Fid(p)]]
  /\ IF Loadable(disk[Fid(p)])
     THEN /\ wb' = [wb EXCEPT ![p] = load_workbook(disk[Fid(p)])]
          /\ pc' = [pc EXCEPT ![p] = "v_report"]
          /\ UNCHANGED resp
     ELSE /\ resp' = [resp EXCEPT ![p] = ErrorResponse(400)]
          /\ pc' = [pc EXCEPT ![p] = "idle"]
          /\ UNCHANGED wb
  /\ UNCHANGED <<call, ret, req, nreq, disk, tmp, bak, meta, lockTable, locks, guard, lk>>

\* the ExcelValidationResponse validate returns
ValidateResponse(p, report) ==
  /\ resp' = [resp EXCEPT ![p] =
                [NoResponse EXCEPT !.status = report.status,
                                   !.code = 200,
                                   !.preflightReport = Some(report)]]
  /\ loc' = [loc EXCEPT ![p].preflight_report = Some(report),
                        ![p].did = @ \cup {"preflight"}]

\* a faulty validate: it saves the workbook it analysed over the stored file
ValidateReportSaving(p) ==
  /\ pc[p] = "v_report"
  /\ resp' = [resp EXCEPT ![p] = ErrorResponse(400)]
  /\ disk' = [disk EXCEPT ![Fid(p)] = SavedFile(wb[p])]
  /\ wb' = [wb EXCEPT ![p] = NoWb]
  /\ pc' = [pc EXCEPT ![p] = "idle"]
  /\ UNCHANGED <<call, ret, req, nreq, loc, tmp, bak, meta, lockTable, locks, guard, lk>>

\* sheet lookup, _collect_preflight_warnings and _build_preflight_report
ValidateReport(p) ==
  /\ pc[p] = "v_report"
  /\ IF ~HasSheet(wb[p], req[p].sheet)
     THEN /\ resp' = [resp EXCEPT ![p] = ErrorResponse(400)]
          /\ UNCHANGED loc
     ELSE ValidateResponse(p,
            _build_preflight_report(
              _collect_preflight_warnings(wb[p], req[p].sheet, req[p].changes),
              req[p].strictFormulaMode, req[p].blockReferencedByFormula,
              req[p].allowFormulaOverwrite))
  /\ wb' = [wb EXCEPT ![p] = NoWb]
  /\ pc' = [pc EXCEPT ![p] = "idle"]
  /\ UNCHANGED <<call, ret, req, nreq, disk, tmp, bak, meta, lockTable, locks, guard, lk>>

(***************************************************************************)
(* Specification.                                                           *)
(***************************************************************************)
Next ==
  \E p \in Procs :
    \/ \E r \in Requests : Start(p, r)
    \/ GetLock(p)
    \/ GuardWake(p)
    \/ GuardBody(p)
    \/ AcquireLock(p)
    \/ LockWake(p)
    \/ Load(p)
    \/ ComputeUpdate(p)
    \/ ComputeDownload(p)
    \/ PMkstemp(p)
    \/ PSave(p)
    \/ PCalc(p)
    \/ PVerify(p)
    \/ PBackup(p)
    \/ PReplace(p)
    \/ PRollback(p)
    \/ PRollbackCopy(p)
    \/ PCleanup(p)
    \/ Meta(p)
    \/ DownloadPost(p)
    \/ ValidateLoad(p)
    \/ ValidateReport(p)

Spec == Init /\ [][Next]_vars

(***************************************************************************)
(* Clients that keep sending requests, and fairness.                        *)
(*                                                                          *)
(* The event loop runs every task that is ready: a task that can take its   *)
(* next step takes it eventually.  A blocking call returns or raises, and   *)
(* release() of an asyncio.Lock makes its first waiter ready.  Nothing      *)
(* obliges a client to send a request, so the start of a request is not     *)
(* fair; and nothing bounds the number of requests, so they are not counted *)
(* here.                                                                    *)
(***************************************************************************)
\* the steps of task p after its request has started
TaskStep(p) ==
  \/ GetLock(p)
  \/ GuardWake(p)
  \/ GuardBody(p)
  \/ AcquireLock(p)
  \/ LockWake(p)
  \/ Load(p)
  \/ ComputeUpdate(p)
  \/ ComputeDownload(p)
  \/ PMkstemp(p)
  \/ PSave(p)
  \/ PCalc(p)
  \/ PVerify(p)
  \/ PBackup(p)
  \/ PReplace(p)
  \/ PRollback(p)
  \/ PRollbackCopy(p)
  \/ PCleanup(p)
  \/ Meta(p)
  \/ DownloadPost(p)
  \/ ValidateLoad(p)
  \/ ValidateReport(p)

\* Task p moves on from its position.  p is ready unless it is idle or waits
\* for a lock that is taken or that an earlier waiter is due to get; every
\* step of TaskStep(p) changes pc[p] and nothing else of pc.
Advance(p) ==
  /\ pc[p] # "idle"
  /\ pc[p] = "guard_wait" => CanWake(guard, p)
  /\ pc[p] = "lock_wait" => CanWake(locks[lk[p]], p)
  /\ \E s \in {"idle", "get_lock", "guard_wait", "in_guard", "acquire", "lock_wait",
               "load", "compute", "p_mkstemp", "meta", "d_post", "v_load", "v_report"}
                \cup {"p_save", "p_calc", "p_verify", "p_backup", "p_replace",
                      "p_rollback", "p_rollback_copy", "p_cleanup"} :
       pc' = [pc EXCEPT ![p] = s]

\* two clients that send, again and again, a download-ready that repairs and
\* persists, an update that fails inside the lock, and a validate, all for f1
FairNext ==
  \E p \in Procs :
    \/ \E r \in {Download1, UpdateNoSheet, Validate1} : Begin(p, r) /\ UNCHANGED nreq
    \/ TaskStep(p)

\* both documents hold the workbook with the repairable formula
FairInit == Init /\ disk["f1"] = SavedFile(WbRepairable)

FairSpec == FairInit /\ [][FairNext]_vars /\ \A p \in Procs : WF_pc(Advance(p))

(***************************************************************************)
(* The schedule of one asyncio event loop.                                  *)
(*                                                                          *)
(* The endpoints are `async def` functions, which run on the thread of the  *)
(* event loop, and the loop switches tasks only where a task suspends at an *)
(* await.  openpyxl.load_workbook, wb.save, shutil.copy2, os.replace and    *)
(* the metadata update are plain calls, and acquire() of a free             *)
(* asyncio.Lock returns without suspending: a task that has started keeps   *)
(* the thread until it returns or waits for a lock.                         *)
(***************************************************************************)
\* the thread of the event loop is free for task p: no other task is between
\* its start and its next suspension
LoopTurn(p) ==
  \A q \in Procs \ {p} : pc[q] \in {"idle", "guard_wait", "lock_wait"}

\* The steps of Next in the order one event loop runs them.  No task finds a
\* lock taken here, because no task suspends while it holds one, so nobody
\* waits for the guard or for a document's lock.
LoopNext ==
  \E p \in Procs :
    \/ \E r \in Requests : LoopTurn(p) /\ Start(p, r)
    \/ LoopTurn(p) /\ GetLock(p)
    \/ LoopTurn(p) /\ GuardBody(p)
    \/ LoopTurn(p) /\ AcquireLock(p)
    \/ LoopTurn(p) /\ Load(p)
    \/ LoopTurn(p) /\ ComputeUpdate(p)
    \/ LoopTurn(p) /\ ComputeDownload(p)
    \/ LoopTurn(p) /\ PMkstemp(p)
    \/ LoopTurn(p) /\ PSave(p)
    \/ LoopTurn(p) /\ PCalc(p)
    \/ LoopTurn(p) /\ PVerify(p)
    \/ LoopTurn(p) /\ PBackup(p)
    \/ LoopTurn(p) /\ PReplace(p)
    \/ LoopTurn(p) /\ PRollback(p)
    \/ LoopTurn(p) /\ PRollbackCopy(p)
    \/ LoopTurn(p) /\ PCleanup(p)
    \/ LoopTurn(p) /\ Meta(p)
    \/ LoopTurn(p) /\ DownloadPost(p)
    \/ LoopTurn(p) /\ ValidateLoad(p)
    \/ LoopTurn(p) /\ ValidateReport(p)

LoopSpec == Init /\ [][LoopNext]_vars

(***************************************************************************)
(* The functions of the router called on their own.                         *)
(*                                                                          *)
(* A second specification: it starts with one call, a function of the       *)
(* router and its arguments drawn from the sets below, and its actions      *)
(* apply the function.  No endpoint runs meanwhile.                         *)
(***************************************************************************)
\* the longest list of warnings handed to _build_preflight_report
MaxWarnings == 3

\* how often one workbook is scanned in a row
MaxScans == 2

\* the longest list of changes handed to _apply_worksheet_changes
MaxChanges == 3

\* the longest list of issues handed to _build_qc_report
MaxIssues == 52

\* One call is about to be made, of a function and arguments out of the sets
\* below; the endpoints stay as they are at import.
PureInit ==
  LET \* a sheet whose name holds an apostrophe, which a formula writes doubled
      \* inside quotes
      SQ == <<"O", "'", "B">>
      \* _build_preflight_report(warnings, flags) for every list of up to
      \* MaxWarnings warnings and every combination of the three flags.  The
      \* warnings are one CellWarning of each kind for the cell S1!A1: a formula
      \* overwrite whose change carries no force flag, one whose change carries it,
      \* a reference from S2!A1, and a named range.
      ReportCalls ==
        LET SampleWarnings ==
              {Warning(S1, Change(1, 1, IntV(5), FALSE, force), <<"A", "1">>, "contains_formula",
                       [NoDetails EXCEPT !.current_formula = StrV(<<"=", "B", "1">>),
                                         !.overwrite_allowed = force]) : force \in BOOLEAN}
              \cup
              {Warning(S1, Change(1, 1, IntV(5), FALSE, FALSE), <<"A", "1">>, "referenced_by_formula",
                       [NoDetails EXCEPT !.referenced_by = << <<"S", "2", "!", "A", "1">> >>,
                                         !.total_references = 1]),
               Warning(S1, Change(1, 1, IntV(5), FALSE, FALSE), <<"A", "1">>, "in_named_range",
                       [NoDetails EXCEPT !.named_range = <<"N">>])}
        IN  {[fn |-> "_build_preflight_report", warnings |-> w, strict_formula_mode |-> s,
              block_referenced_by_formula |-> b, allow_formula_overwrite |-> a] :
               w \in UNION {[1..n -> SampleWarnings] : n \in 0..MaxWarnings},
               s \in BOOLEAN, b \in BOOLEAN, a \in BOOLEAN}

      \* Preflight of one change to A1, B1 or A3 of the target sheet, in a workbook
      \* of two sheets, target (A1 = 10, A2 = 20) and S2 (A2 = 7), with one formula
      \* cell, S2!A1 or target!C3, whose formula "=<prefix><corner>[:<corner>]+1"
      \* holds one reference.  The reference names its first corner c1 and, for a
      \* range, its second corner c2 (<<0, 0>> for a single cell) as <<row, column>>,
      \* with or without "$", behind a sheet prefix: none, the target sheet's name
      \* as it is ("name"), in lower case ("lower") or quoted with every ' doubled
      \* ("quoted"), or the name of the other sheet ("other").  An unquoted prefix
      \* is written for a sheet name that needs no quotes only.
      PreflightCalls ==
        LET Corners == {<<1, 1>>, <<2, 2>>}
            References ==
              [qual : {"none", "name", "lower", "quoted", "other"},
               c1 : Corners, c2 : Corners \cup {<<0, 0>>}, abs : BOOLEAN]
            Quoted(t) == IF t = SQ THEN <<"'", "O", "'", "'", "B", "'">> ELSE <<"'">> \o t \o <<"'">>
            CornerText(c, abs) ==
              (IF abs THEN <<"$">> ELSE <<>>) \o get_column_letter(c[2])
              \o (IF abs THEN <<"$">> ELSE <<>>) \o IntToChars(c[1])
            RefFormula(ref, t) ==
              <<"=">>
              \o (CASE ref.qual = "none"   -> <<>>
                    [] ref.qual = "name"   -> t \o <<"!">>
                    [] ref.qual = "lower"  -> Lower(t) \o <<"!">>
                    [] ref.qual = "quoted" -> Quoted(t) \o <<"!">>
                    [] OTHER               -> S2 \o <<"!">>)
              \o CornerText(ref.c1, ref.abs)
              \o (IF ref.c2 = <<0, 0>> THEN <<>> ELSE <<":">> \o CornerText(ref.c2, ref.abs))
              \o <<"+", "1">>
            RefWorkbook(t, where, formula) ==
              [sheetnames |-> <<t, S2>>,
               sheets |-> << (<<1, 1>> :> IntV(10)) @@ (<<2, 1>> :> IntV(20))
                             @@ (IF where = "target" THEN <<3, 3>> :> StrV(formula) ELSE <<>>),
                             (<<2, 1>> :> IntV(7))
                             @@ (IF where = "other" THEN <<1, 1>> :> StrV(formula) ELSE <<>>) >>,
               defined_names |-> <<>>]
        IN  {c \in
               {[fn |-> "_collect_preflight_warnings",
                 wb |-> RefWorkbook(t, where, RefFormula(ref, t)),
                 sheet_name |-> t,
                 changes |-> <<Change(cell[1], cell[2], IntV(5), FALSE, FALSE)>>,
                 block_referenced_by_formula |-> b,
                 ref |-> ref, where |-> where] :
                  t \in {S1, SQ}, where \in {"other", "target"}, ref \in References,
                  cell \in {<<1, 1>>, <<1, 2>>, <<3, 1>>}, b \in BOOLEAN} :
               c.sheet_name = SQ => c.ref.qual \notin {"name", "lower"}}

      \* The QC scan of a workbook of two sheets, first (A1 = 10) and S2, with two
      \* formula cells: first!A2 and S2!A1.  Each formula comes with the sheet names
      \* its references are qualified with, as the formula writes them (quotes
      \* taken off, '' read as '): written holds them for each sheet.  scan counts
      \* the scans of this workbook, repaired is what the scan before this one
      \* repaired.
      QcCalls ==
        LET QcFormulas ==
              {[text |-> <<"=", "=", "A", "1">>, sheets |-> {}],
               [text |-> <<"=", "=", "=", "A", "1">>, sheets |-> {}],
               [text |-> <<"=", "=">>, sheets |-> {}],
               [text |-> <<"=", "A", "1">>, sheets |-> {}],
               [text |-> <<"=", "(", "A", "1">>, sheets |-> {}],
               [text |-> <<"=", "=", "(", "A", "1">>, sheets |-> {}],
               [text |-> <<"=", "#", "R", "E", "F", "!", "+", "1">>, sheets |-> {}],
               [text |-> <<"=", "#", "r", "e", "f", "!", "+", "1">>, sheets |-> {}],
               [text |-> <<"=", "#", "N", "a", "m", "e", "?">>, sheets |-> {}],
               [text |-> <<"=", "=", "#", "V", "A", "L", "U", "E", "!">>, sheets |-> {}],
               [text |-> <<"=", "'", "M", "i", " ", "S", "'", "!", "B", "2", "+", "1">>,
                sheets |-> {<<"M", "i", " ", "S">>}],
               [text |-> <<"=", "s", "1", "!", "A", "1">>, sheets |-> {<<"s", "1">>}],
               [text |-> <<"=", "S", "9", "!", "A", "1", "+", "S", "8", "!", "A", "1", "+",
                           "S", "9", "!", "A", "2">>,
                sheets |-> {<<"S", "9">>, <<"S", "8">>}],
               [text |-> <<"=", "'", "O", "'", "'", "B", "'", "!", "A", "1">>, sheets |-> {SQ}]}
        IN  {[fn |-> "_run_formula_qc_and_repairs",
              wb |-> [sheetnames |-> <<first, S2>>,
                      sheets |-> << (<<1, 1>> :> IntV(10)) @@ (<<2, 1>> :> StrV(f1.text)),
                                    (<<1, 1>> :> StrV(f2.text)) >>,
                      defined_names |-> <<>>],
              written |-> <<f1.sheets, f2.sheets>>,
              scan |-> 1, reloaded |-> FALSE, repaired |-> 0] :
               first \in {S1, SQ}, f1 \in QcFormulas, f2 \in QcFormulas}

      \* _build_qc_report(issues, operation) for the lists of 0..MaxIssues issues,
      \* one per cell A1, A2, ... of S1, of which none, the first, the last or all
      \* are critical
      QcReportCalls ==
        {[fn |-> "_build_qc_report",
          issues |-> [i \in 1..n |->
                        QcIssue([sheet |-> S1, row |-> i, col |-> 1, formula |-> <<"=", "A", "1">>],
                                IF \/ which = "all"
                                   \/ which = "first" /\ i = 1
                                   \/ which = "last" /\ i = n
                                THEN "critical" ELSE "warning",
                                "invalid_reference_token", <<>>, FALSE, <<>>)],
          operation |-> operation] :
           n \in 0..MaxIssues, which \in {"none", "first", "last", "all"},
           operation \in {"save", "download"}}

      \* _apply_worksheet_changes(ws, changes) on a sheet with A1 = 10 and
      \* B1 = "=A1", for every list of up to MaxChanges changes out of: a number,
      \* a numeric text and a formula for cells of the sheet, a text with a
      \* control character, a null value, a row and a column of 0, and a column
      \* beyond the last one that has a letter.
      ApplyCalls ==
        LET SampleChanges ==
              {Change(1, 1, IntV(5), FALSE, FALSE),
               Change(1, 1, StrV(<<" ", "7">>), FALSE, FALSE),
               Change(1, 2, StrV(<<"=", "A", "1">>), TRUE, TRUE),
               Change(2, 1, StrV(<<"a", "\f">>), FALSE, FALSE),
               Change(1, 2, NoneV, FALSE, FALSE),
               Change(0, 1, IntV(5), FALSE, FALSE),
               Change(1, 0, IntV(5), FALSE, FALSE),
               Change(1, 18279, IntV(5), FALSE, FALSE)}
        IN  {[fn |-> "_apply_worksheet_changes",
              ws |-> (<<1, 1>> :> IntV(10)) @@ (<<1, 2>> :> StrV(<<"=", "A", "1">>)),
              changes |-> c] :
               c \in UNION {[1..n -> SampleChanges] : n \in 0..MaxChanges}}

      \* _resolve_llm_qc_model_id(configured_models, request, valve, fallback)
      \* for every set of configured ids and every candidate that is None, the
      \* empty string, a configured or an unknown id
      ResolveCalls ==
        LET Candidates == {<<>>, <<"">>, <<"m1">>, <<"m2">>, <<"m3">>}
        IN  {[fn |-> "_resolve_llm_qc_model_id", configured_models |-> c,
              requested_model_id |-> r, valve_model_id |-> v, fallback_model_id |-> f] :
               c \in SUBSET {"", "m1", "m2"},
               r \in Candidates, v \in Candidates, f \in Candidates}

      \* _expand_range(range_str) for the strings "<prefix><start>[:<end>]".
      \* A corner comes with its text and its <<row, column>>, <<0, 0>> when
      \* the text is no coordinate; an end of <<>> stands for a string with
      \* no ":".  kind tells what the string is: one address ("single"), a
      \* range of two coordinates ("range"), or neither ("malformed").
      ExpandCalls ==
        LET Starts == {[text |-> <<"A", "1">>, at |-> <<1, 1>>],
                       [text |-> <<"$", "A", "$", "1">>, at |-> <<1, 1>>],
                       [text |-> <<"a", "2">>, at |-> <<2, 1>>],
                       [text |-> <<"A", "0">>, at |-> <<0, 0>>],
                       [text |-> <<"1", "A">>, at |-> <<0, 0>>]}
            Ends   == {[text |-> <<>>, at |-> <<0, 0>>],
                       [text |-> <<"B", "2">>, at |-> <<2, 2>>],
                       [text |-> <<"B", "3">>, at |-> <<3, 2>>],
                       [text |-> <<"$", "C", "$", "2">>, at |-> <<2, 3>>],
                       [text |-> <<"a", "a", "2">>, at |-> <<2, 27>>],
                       [text |-> <<"B">>, at |-> <<0, 0>>],
                       [text |-> <<"B", "2", ":", "C", "3">>, at |-> <<0, 0>>],
                       [text |-> <<"A", "B", "C", "D", "1">>, at |-> <<0, 0>>]}
            Prefixes == {<<>>, <<"S", "1", "!">>, <<"'", "M", "y", "'", "!">>}
        IN  {[fn |-> "_expand_range",
              range_str |-> p \o s.text
                            \o (IF e.text = <<>> THEN <<>> ELSE <<":">> \o e.text),
              kind |-> IF e.text = <<>> THEN "single"
                       ELSE IF s.at # <<0, 0>> /\ e.at # <<0, 0>> THEN "range"
                       ELSE "malformed",
              start |-> s.at, end |-> e.at] :
               p \in Prefixes, s \in Starts, e \in Ends}
  IN
  /\ call \in ReportCalls \cup PreflightCalls \cup QcCalls \cup QcReportCalls
              \cup ApplyCalls \cup ResolveCalls \cup ExpandCalls
  /\ ret = None
  /\ pc = [p \in Procs |-> "idle"]
  /\ req = [p \in Procs |-> NoRequest]
  /\ nreq = 0
  /\ wb = [p \in Procs |-> NoWb]
  /\ loc = [p \in Procs |-> InitLoc]
  /\ resp = [p \in Procs |-> NoResponse]
  /\ disk = [f \in FileIds |-> SavedFile(WbClean)]
  /\ tmp = [p \in Procs |-> Absent]
  /\ bak = [f \in FileIds |-> Absent]
  /\ meta = [f \in FileIds |-> NoMeta]
  /\ lockTable = [f \in FileIds |-> 0]
  /\ locks = <<>>
  /\ guard = NewLock
  /\ lk = [p \in Procs |-> 0]

\* report = _build_preflight_report(warnings, ...)
CallBuildPreflightReport ==
  /\ call.fn = "_build_preflight_report"
  /\ ret = None
  /\ ret' = Some(_build_preflight_report(
                   call.warnings, call.strict_formula_mode,
                   call.block_referenced_by_formula, call.allow_formula_overwrite))
  /\ UNCHANGED <<call, pc, req, nreq, wb, loc, resp, disk, tmp, bak, meta, lockTable, locks, guard, lk>>

\* warnings = _collect_preflight_warnings(wb, sheet_name, changes) and the
\* report _build_preflight_report makes of them (strict mode, no global
\* allowance), as validate and update compute them
CallCollectPreflightWarnings ==
  /\ call.fn = "_collect_preflight_warnings"
  /\ ret = None
  /\ \E warnings \in {_collect_preflight_warnings(call.wb, call.sheet_name, call.changes)} :
       ret' = Some([warnings |-> warnings,
                    report |-> _build_preflight_report(
                                 warnings, TRUE, call.block_referenced_by_formula, FALSE)])
  /\ UNCHANGED <<call, pc, req, nreq, wb, loc, resp, disk, tmp, bak, meta, lockTable, locks, guard, lk>>

\* issues, repairs_applied = _run_formula_qc_and_repairs(wb); wb is mutated
CallRunFormulaQc ==
  /\ call.fn = "_run_formula_qc_and_repairs"
  /\ ret = None
  /\ ret' = Some(_run_formula_qc_and_repairs(call.wb))
  /\ UNCHANGED <<call, pc, req, nreq, wb, loc, resp, disk, tmp, bak, meta, lockTable, locks, guard, lk>>

\* the scanned workbook is scanned again, as it is in memory or after it was
\* saved and loaded back
Rescan ==
  /\ call.fn = "_run_formula_qc_and_repairs"
  /\ ret # None
  /\ call.scan < MaxScans
  /\ \E reload \in BOOLEAN :
       call' = [call EXCEPT
                  !.wb = IF reload THEN load_workbook(SavedFile(ret[1].wb))
                         ELSE ret[1].wb,
                  !.scan = @ + 1,
                  !.reloaded = reload,
                  !.repaired = ret[1].repairs_applied]
  /\ ret' = None
  /\ UNCHANGED <<pc, req, nreq, wb, loc, resp, disk, tmp, bak, meta, lockTable, locks, guard, lk>>

\* qc_report = _build_qc_report(issues, operation)
CallBuildQcReport ==
  /\ call.fn = "_build_qc_report"
  /\ ret = None
  /\ ret' = Some(_build_qc_report(call.issues, call.operation))
  /\ UNCHANGED <<call, pc, req, nreq, wb, loc, resp, disk, tmp, bak, meta, lockTable, locks, guard, lk>>

\* changes_applied = _apply_worksheet_changes(ws, changes); ws is mutated
CallApplyWorksheetChanges ==
  /\ call.fn = "_apply_worksheet_changes"
  /\ ret = None
  /\ ret' = Some(_apply_worksheet_changes(call.ws, call.changes))
  /\ UNCHANGED <<call, pc, req, nreq, wb, loc, resp, disk, tmp, bak, meta, lockTable, locks, guard, lk>>

\* model_id, source = _resolve_llm_qc_model_id(configured_models, ...)
CallResolveLlmQcModelId ==
  /\ call.fn = "_resolve_llm_qc_model_id"
  /\ ret = None
  /\ ret' = Some(_resolve_llm_qc_model_id(
                   call.configured_models, call.requested_model_id,
                   call.valve_model_id, call.fallback_model_id))
  /\ UNCHANGED <<call, pc, req, nreq, wb, loc, resp, disk, tmp, bak, meta, lockTable, locks, guard, lk>>

\* cells = _expand_range(range_str)
CallExpandRange ==
  /\ call.fn = "_expand_range"
  /\ ret = None
  /\ ret' = Some(_expand_range(call.range_str))
  /\ UNCHANGED <<call, pc, req, nreq, wb, loc, resp, disk, tmp, bak, meta, lockTable, locks, guard, lk>>

PureNext ==
  \/ CallExpandRange
  \/ CallResolveLlmQcModelId
  \/ CallApplyWorksheetChanges
  \/ CallBuildQcReport
  \/ CallBuildPreflightReport
  \/ CallCollectPreflightWarnings
  \/ CallRunFormulaQc
  \/ Rescan

PureSpec == PureInit /\ [][PureNext]_vars

(***************************************************************************)
(* Properties.                                                              *)
(***************************************************************************)
\* the positions inside _persist_workbook_atomically once mkstemp has run
PersistPcs ==
  {"p_save", "p_calc", "p_verify", "p_backup", "p_replace", "p_rollback",
   "p_rollback_copy", "p_cleanup"}

\* the positions of update and download-ready inside `async with lock:`
CriticalPcs == {"load", "compute", "p_mkstemp", "meta"} \cup PersistPcs

\* C1: at every point of _persist_workbook_atomically the target holds the
\* document it held when persist began or the new document that was written in
\* full and loaded back, and after a persist that returned the target loads.
C1_TargetPreOrVerifiedPost ==
  \A p \in Procs :
    /\ pc[p] \in PersistPcs =>
         \/ disk[Fid(p)] = loc[p].pre
         \/ loc[p].verified /\ disk[Fid(p)] = SavedFile(wb[p])
    /\ (pc[p] = "meta" /\ "persist" \in loc[p].did) => Loadable(disk[Fid(p)])

\* C2: when os.replace fails, the target holds afterwards the bytes it held
\* before persist began, and the caller receives the error of the rename.
C2_RenameFailureRestoresTarget ==
  \A p \in Procs :
    loc[p].exc = "replace" =>
      /\ pc[p] = "p_cleanup" => disk[Fid(p)] = loc[p].pre
      /\ pc[p] = "idle" => resp[p] = ErrorResponse(ErrorCode(p, "replace"))

\* C3: when wb.save or the load of the temporary file fails, persist ends with
\* an error having made no backup copy and attempted no rename, the target
\* unchanged.
C3_AbortBeforeTargetTouched ==
  \A p \in Procs :
    loc[p].exc \in {"save", "verify"} =>
      /\ loc[p].did \cap {"backup", "replace", "rollback"} = {}
      /\ pc[p] \in {"p_cleanup", "idle"}
      /\ pc[p] = "p_cleanup" => disk[Fid(p)] = loc[p].pre
      /\ pc[p] = "idle" => resp[p].status = "error"

\* a persist stopped by a temporary file that does not load, the target intact
C3_Witness ==
  \E p \in Procs :
    /\ pc[p] = "idle"
    /\ loc[p].exc = "verify"
    /\ resp[p].status = "error"
    /\ disk[Fid(p)] = loc[p].pre

\* C4: two updates of one document that edit disjoint cells (S1!A1 := 101 and
\* S1!A2 := 202) and both return ok leave both edits in the stored document,
\* in every interleaving.
C4_BothEditsPersisted ==
  \A p, q \in Procs :
    (/\ req[p] = UpdateA1 /\ pc[p] = "idle" /\ resp[p].status = "ok"
     /\ req[q] = UpdateA2 /\ pc[q] = "idle" /\ resp[q].status = "ok")
    => /\ Loadable(disk["f1"])
       /\ CellValue(disk["f1"].wb.sheets[1], 1, 1) = IntV(101)
       /\ CellValue(disk["f1"].wb.sheets[1], 2, 1) = IntV(202)

\* both updates have returned ok and one of them had to wait for the lock the
\* other held, and loaded the other's edit
C4_Witness ==
  \E p, q \in Procs :
    /\ req[p] = UpdateA1 /\ pc[p] = "idle" /\ resp[p].status = "ok"
    /\ req[q] = UpdateA2 /\ pc[q] = "idle" /\ resp[q].status = "ok"
    /\ loc[q].waited
    /\ CellValue(loc[q].loaded.wb.sheets[1], 1, 1) = IntV(101)

\* C5: every task gets the lock the table holds for its document, an entry is
\* never replaced (each lock created is the entry of one document), and no
\* two update or download-ready workflows of one document are between load
\* and the metadata update at once.
C5_OneLockPerDocument ==
  /\ \A p \in Procs : lk[p] # 0 => lk[p] = lockTable[Fid(p)]
  /\ \A f, g \in FileIds : (lockTable[f] # 0 /\ lockTable[f] = lockTable[g]) => f = g
  /\ Cardinality({f \in FileIds : lockTable[f] # 0}) = Len(locks)
  /\ \A p, q \in Procs :
       (p # q /\ Fid(p) = Fid(q)) => ~(pc[p] \in CriticalPcs /\ pc[q] \in CriticalPcs)

\* one task persists while another waits for the same lock
C5_Witness ==
  \E p, q \in Procs :
    /\ p # q
    /\ Fid(p) = Fid(q)
    /\ lk[p] = lk[q]
    /\ pc[p] \in PersistPcs
    /\ pc[q] = "lock_wait"

\* C6: validate, update and download-ready load and work on the document only
\* while holding the lock of its document identifier.
C6_EveryWorkflowHoldsLock ==
  \A p \in Procs :
    pc[p] \in CriticalPcs \cup {"v_load", "v_report"} =>
      /\ lockTable[Fid(p)] # 0
      /\ locks[lockTable[Fid(p)]].owner = p

\* C7: what validate loads is a whole document, the one before or the one
\* after a concurrent persist, never a target that is being rewritten.
C7_ValidateLoadsWholeDocument ==
  \A p \in Procs :
    (req[p].op = "validate" /\ loc[p].loaded # Absent) => Loadable(loc[p].loaded)

\* C8: when an update or download-ready workflow has ended, by a response or
\* by an error, its task holds no lock.
C8_LockReleasedAtEnd ==
  \A p \in Procs :
    (req[p].op \in {"update", "download"} /\ pc[p] \in {"idle", "d_post"}) =>
      \A i \in DOMAIN locks :
        locks[i].owner # p /\ p \notin SeqToSet(locks[i].waiters)

\* an update that acquired the lock and ended with an error inside persist
C8_Witness ==
  \E p \in Procs :
    /\ req[p].op = "update"
    /\ pc[p] = "idle"
    /\ resp[p].status = "error"
    /\ "persist" \in loc[p].did
    /\ locks[lk[p]].owner # p

\* C9: an update whose preflight report is not safe to apply returns status
\* blocked with that report in a 200 response and has applied no change, run
\* no QC, persisted nothing and written no metadata.
C9_PreflightBlockStops ==
  \A p \in Procs :
    (/\ req[p].op = "update"
     /\ loc[p].preflight_report # None
     /\ ~loc[p].preflight_report[1].safe_to_apply)
    => /\ pc[p] = "idle"
       /\ resp[p].status = "blocked"
       /\ resp[p].code = 200
       /\ resp[p].preflightReport = loc[p].preflight_report
       /\ resp[p].qcReport = None
       /\ loc[p].did = {"preflight"}
       /\ loc[p].changes_applied = 0

\* an update blocked by preflight while the stored document is as it loaded it
C9_Witness ==
  \E p \in Procs :
    /\ req[p] = UpdateStrict
    /\ pc[p] = "idle"
    /\ resp[p].status = "blocked"
    /\ ~resp[p].preflightReport[1].safe_to_apply
    /\ disk[Fid(p)] = loc[p].loaded

\* C10: persist runs only on a workbook whose QC scan found no critical issue;
\* when the QC report is blocked nothing is persisted, the stored file is the
\* one that was loaded, and update returns blocked with both reports.
C10_PersistOnlyAfterCleanQc ==
  \A p \in Procs :
    /\ "persist" \in loc[p].did =>
         /\ "qc" \in loc[p].did
         /\ loc[p].qc_report # None
         /\ ~loc[p].qc_report[1].blocked
         /\ loc[p].qc_report[1].criticalUnresolved = 0
    /\ pc[p] \in {"p_mkstemp", "p_save"} =>
         \A i \in 1..Len(_run_formula_qc_and_repairs(wb[p]).issues) :
           _run_formula_qc_and_repairs(wb[p]).issues[i].severity # "critical"
    /\ (loc[p].qc_report # None /\ loc[p].qc_report[1].blocked) =>
         /\ "persist" \notin loc[p].did
         /\ pc[p] \in {"meta", "d_post", "idle"}
         /\ pc[p] = "meta" => disk[Fid(p)] = loc[p].loaded
         /\ req[p].op = "update" =>
              /\ pc[p] = "idle"
              /\ resp[p].status = "blocked"
              /\ resp[p].preflightReport # None
              /\ resp[p].preflightReport = loc[p].preflight_report
              /\ resp[p].qcReport = loc[p].qc_report

\* an update that QC blocked, the stored document still the one it loaded
C10_Witness ==
  \E p \in Procs :
    /\ req[p].op = "update"
    /\ pc[p] = "idle"
    /\ resp[p].status = "blocked"
    /\ resp[p].qcReport # None
    /\ resp[p].qcReport[1].blocked
    /\ disk[Fid(p)] = loc[p].loaded

\* C11 (state part): after the QC scan of download-ready one branch is taken.
\* Blocked: nothing is persisted, the stored file is the one loaded, a returned
\* response has status blocked.  Not blocked with repairs: persist runs and
\* the metadata update follows a completed rename, a returned response has
\* status ok.  Not blocked without repairs: nothing is persisted, status ok.
C11_BranchState ==
  \A p \in Procs :
    (req[p].op = "download" /\ loc[p].qc_report # None) =>
      /\ pc[p] # "compute"
      /\ (pc[p] = "idle" /\ resp[p].code = 200) =>
           resp[p].status = IF loc[p].qc_report[1].blocked THEN "blocked" ELSE "ok"
      /\ IF ~loc[p].qc_report[1].blocked /\ loc[p].repairs_applied > 0
         THEN /\ pc[p] # "p_mkstemp" => "persist" \in loc[p].did
              /\ (pc[p] \in {"meta", "d_post"} \/ "meta" \in loc[p].did) =>
                   "replace" \in loc[p].did /\ loc[p].exc \in {"", "meta"}
              /\ pc[p] = "meta" => disk[Fid(p)] = SavedFile(wb[p])
         ELSE /\ "persist" \notin loc[p].did
              /\ pc[p] \in {"meta", "d_post", "idle"}
              /\ pc[p] = "meta" => disk[Fid(p)] = loc[p].loaded

\* C11 (step part): the payload a download-ready workflow stores in the
\* metadata sink names the branch taken and carries the report's block state.
C11_BranchStep ==
  \A p \in Procs :
    (/\ pc[p] = "meta"
     /\ req[p].op = "download"
     /\ "meta" \in loc'[p].did)
    => /\ meta'[Fid(p)].blocked = loc[p].qc_report[1].blocked
       /\ meta'[Fid(p)].changes_applied = 0
       /\ meta'[Fid(p)].operation =
            IF loc[p].qc_report[1].blocked THEN "download_ready_blocked"
            ELSE IF loc[p].repairs_applied > 0 THEN "download_ready_repair"
            ELSE "download_ready_check"

C12_ValidateWritesNothing ==
  [][\A p \in Procs :
       (pc'[p] # pc[p] /\ req'[p].op = "validate") =>
         /\ disk' = disk
         /\ tmp' = tmp
         /\ bak' = bak
         /\ meta' = meta]_vars

\* a validate that returned its report, the stored document being the one it
\* loaded and the metadata sink never written
C12_Witness ==
  \E p \in Procs :
    /\ req[p] = Validate1
    /\ pc[p] = "idle"
    /\ resp[p].code = 200
    /\ resp[p].preflightReport # None
    /\ disk[Fid(p)] = loc[p].loaded
    /\ meta[Fid(p)] = NoMeta

\* C13: in update the steps run in the order preflight, apply, QC, persist,
\* metadata update, return ok: persist begins after preflight, apply and QC;
\* the metadata update is reached, and the sink written, only after the rename
\* of a persist in which no step failed; status ok is returned only after such
\* a persist; and an update that ended blocked (by preflight or by QC) or with
\* an error has not written the sink.
C13_UpdateStepOrder ==
  \A p \in Procs :
    req[p].op = "update" =>
      /\ "persist" \in loc[p].did => {"preflight", "apply", "qc"} \subseteq loc[p].did
      /\ "qc" \in loc[p].did => {"preflight", "apply"} \subseteq loc[p].did
      /\ (pc[p] = "meta" \/ "meta" \in loc[p].did) =>
           /\ {"persist", "replace"} \subseteq loc[p].did
           /\ "rollback" \notin loc[p].did
           /\ loc[p].verified
           /\ loc[p].exc \in {"", "meta"}
      /\ pc[p] = "meta" => disk[Fid(p)] = SavedFile(wb[p])
      /\ (pc[p] = "idle" /\ resp[p].status = "ok") =>
           /\ {"persist", "replace"} \subseteq loc[p].did
           /\ "rollback" \notin loc[p].did
           /\ loc[p].exc = ""
           /\ loc[p].metadata_updated = Some("meta" \in loc[p].did)
      /\ (pc[p] = "idle" /\ resp[p].status \in {"blocked", "error"}) =>
           "meta" \notin loc[p].did

\* an update that returned ok after its persist and its metadata update, the
\* sink holding the payload of this update
C13_Witness ==
  \E p \in Procs :
    /\ req[p] = UpdateA2
    /\ pc[p] = "idle"
    /\ resp[p].status = "ok"
    /\ resp[p].metadataUpdated = Some(TRUE)
    /\ {"preflight", "apply", "qc", "persist", "replace", "meta"} \subseteq loc[p].did
    /\ meta[Fid(p)].operation = "update"
    /\ meta[Fid(p)].changes_applied = 1

\* C14: _build_preflight_report returns safe_to_apply = FALSE exactly when
\* (strict_formula_mode, not allow_formula_overwrite, and some contains_formula
\* warning whose change carries no force flag) or (block_referenced_by_formula
\* and some referenced_by_formula warning); status is blocked exactly then;
\* dropping the in_named_range warnings leaves the result as it is; and with
\* the force flag set on every formula overwrite only a reference can block.
C14_PreflightPolicy ==
  (call.fn = "_build_preflight_report" /\ ret # None) =>
    LET w == call.warnings
        overwriteBlocks ==
          /\ call.strict_formula_mode
          /\ ~call.allow_formula_overwrite
          /\ \E i \in 1..Len(w) :
               w[i].warning_type = "contains_formula" /\ ~w[i].overwrite_allowed
        referenceBlocks ==
          /\ call.block_referenced_by_formula
          /\ \E i \in 1..Len(w) : w[i].warning_type = "referenced_by_formula"
        NotNamedRange(x) == x.warning_type # "in_named_range"
        forced ==
          [i \in 1..Len(w) |->
             IF w[i].warning_type = "contains_formula"
             THEN [w[i] EXCEPT !.overwrite_allowed = TRUE] ELSE w[i]]
    IN  /\ ret[1].safe_to_apply = ~(overwriteBlocks \/ referenceBlocks)
        /\ ret[1].status = (IF ret[1].safe_to_apply THEN "ok" ELSE "blocked")
        /\ ret[1].warnings = w
        /\ _build_preflight_report(
             SelectSeq(w, NotNamedRange), call.strict_formula_mode,
             call.block_referenced_by_formula,
             call.allow_formula_overwrite).safe_to_apply = ret[1].safe_to_apply
        /\ _build_preflight_report(
             forced, call.strict_formula_mode, call.block_referenced_by_formula,
             call.allow_formula_overwrite).safe_to_apply = ~referenceBlocks

\* a report blocked by nothing but an unforced formula overwrite in strict
\* mode, among warnings that include a forced overwrite and a named range
C14_Witness ==
  /\ call.fn = "_build_preflight_report"
  /\ ret # None
  /\ ret[1].status = "blocked"
  /\ call.strict_formula_mode
  /\ ~call.allow_formula_overwrite
  /\ Len(call.warnings) = 3
  /\ \A i \in 1..Len(call.warnings) :
       call.warnings[i].warning_type # "referenced_by_formula"
  /\ \E i, j, k \in 1..Len(call.warnings) :
       /\ call.warnings[i].warning_type = "contains_formula"
       /\ ~call.warnings[i].overwrite_allowed
       /\ call.warnings[j].warning_type = "contains_formula"
       /\ call.warnings[j].overwrite_allowed
       /\ call.warnings[k].warning_type = "in_named_range"

\* whether the rectangle between the two corners of reference ref, in
\* whichever order they are written, holds the cell <<row, col>>
RefRectangleHas(ref, row, col) ==
  IF ref.c2 = <<0, 0>> THEN ref.c1 = <<row, col>>
  ELSE /\ (ref.c1[1] <= row /\ row <= ref.c2[1]) \/ (ref.c2[1] <= row /\ row <= ref.c1[1])
       /\ (ref.c1[2] <= col /\ col <= ref.c2[2]) \/ (ref.c2[2] <= col /\ col <= ref.c1[2])

\* the referenced_by_formula warnings a preflight returned for its change
ReferenceWarnings ==
  {i \in 1..Len(ret[1].warnings) :
     /\ ret[1].warnings[i].warning_type = "referenced_by_formula"
     /\ ret[1].warnings[i].row = call.changes[1].row
     /\ ret[1].warnings[i].col = call.changes[1].col}

\* C15: a formula on another sheet whose reference is qualified with the
\* target sheet's name (as it is, in another letter case, or quoted) and covers
\* the changed cell gives a referenced_by_formula warning for that cell whose
\* referenced_by list holds 'S2!A1', and with block_referenced_by_formula the
\* report is blocked; an unqualified reference on another sheet gives none.
C15_CrossSheetDependency ==
  (call.fn = "_collect_preflight_warnings" /\ ret # None /\ call.where = "other") =>
    /\ (/\ call.ref.qual \in {"name", "lower", "quoted"}
        /\ RefRectangleHas(call.ref, call.changes[1].row, call.changes[1].col))
       => /\ \E i \in ReferenceWarnings :
               /\ ret[1].warnings[i].address =
                    Address(call.changes[1].row, call.changes[1].col)
               /\ \E k \in 1..Len(ret[1].warnings[i].referenced_by) :
                    ret[1].warnings[i].referenced_by[k] = S2 \o <<"!", "A", "1">>
          /\ call.block_referenced_by_formula =>
               ret[1].report.status = "blocked" /\ ~ret[1].report.safe_to_apply
    /\ call.ref.qual = "none" => ReferenceWarnings = {}

\* C16: no dependency is missed.  Whenever the one formula of the workbook
\* holds a reference that resolves to the target sheet (qualified with its
\* name as it is, in another letter case or quoted; or unqualified in a
\* formula of the target sheet itself) and the rectangle between its corners,
\* in whichever order they are written, holds the changed cell, preflight
\* returns a referenced_by_formula warning for that cell.
C16_NoMissedDependency ==
  (call.fn = "_collect_preflight_warnings" /\ ret # None) =>
    ((/\ \/ call.ref.qual \in {"name", "lower", "quoted"}
         \/ call.ref.qual = "none" /\ call.where = "target"
      /\ RefRectangleHas(call.ref, call.changes[1].row, call.changes[1].col))
     => \E i \in ReferenceWarnings :
          ret[1].warnings[i].address =
            Address(call.changes[1].row, call.changes[1].col))

\* the two formula cells of the workbook under the QC scan: the index of the
\* sheet, the coordinate, and the address the issues name
ScannedCells ==
  {[si |-> 1, k |-> <<2, 1>>, cell |-> <<"A", "2">>],
   [si |-> 2, k |-> <<1, 1>>, cell |-> <<"A", "1">>]}

\* the issues of one type the scan returned for formula cell c
IssuesOf(c, issueType) ==
  {i \in 1..Len(ret[1].issues) :
     /\ ret[1].issues[i].sheet = call.wb.sheetnames[c.si]
     /\ ret[1].issues[i].cell = c.cell
     /\ ret[1].issues[i].issueType = issueType}

\* r is text f with its leading "=" signs, two or more, replaced by one
OneEqualsFor(r, f) ==
  /\ Len(r) >= 1
  /\ r[1] = "="
  /\ Len(r) >= 2 => r[2] # "="
  /\ \E n \in 2..Len(f) : f = [i \in 1..n |-> "="] \o Tail(r)

\* C17: the scan rewrites a formula cell that starts with "==" to the same
\* text with one "=" in place of its leading "=" signs, counts one repair and
\* emits one warning auto_repaired_formula_prefix issue for it, and leaves
\* the other cells unreported; after the scan no formula cell starts with
\* "==", and a scan of the scanned workbook, in memory or saved and loaded
\* back, reports no such issue and repairs_applied = 0.
C17_DoubleEqualsRepair ==
  (call.fn = "_run_formula_qc_and_repairs" /\ ret # None) =>
    /\ \A c \in ScannedCells :
         LET before == call.wb.sheets[c.si][c.k].s
             after  == ret[1].wb.sheets[c.si][c.k].s
         IN  IF StartsWith(before, <<"=", "=">>)
             THEN /\ OneEqualsFor(after, before)
                  /\ Cardinality(IssuesOf(c, "auto_repaired_formula_prefix")) = 1
                  /\ \A i \in IssuesOf(c, "auto_repaired_formula_prefix") :
                       /\ ret[1].issues[i].severity = "warning"
                       /\ ret[1].issues[i].originalFormula = StrV(before)
                       /\ ret[1].issues[i].repairedFormula = StrV(after)
             ELSE /\ after = before
                  /\ IssuesOf(c, "auto_repaired_formula_prefix") = {}
    /\ ret[1].repairs_applied =
         Cardinality({c \in ScannedCells :
                        StartsWith(call.wb.sheets[c.si][c.k].s, <<"=", "=">>)})
    /\ \A c \in ScannedCells : ~StartsWith(ret[1].wb.sheets[c.si][c.k].s, <<"=", "=">>)
    /\ call.scan > 1 =>
         /\ ret[1].repairs_applied = 0
         /\ \A i \in 1..Len(ret[1].issues) :
              ret[1].issues[i].issueType # "auto_repaired_formula_prefix"

\* the second scan, after a save and a load, of a workbook whose first scan
\* repaired both formula cells: it repairs nothing
C17_Witness ==
  /\ call.fn = "_run_formula_qc_and_repairs"
  /\ ret # None
  /\ call.scan = 2
  /\ call.reloaded
  /\ call.repaired = 2
  /\ call.wb.sheets[1][<<2, 1>>] = StrV(<<"=", "A", "1">>)
  /\ call.wb.sheets[2][<<1, 1>>] = StrV(<<"=">>)
  /\ ret[1].repairs_applied = 0
  /\ ret[1].issues = <<>>

\* C18: for every formula cell whose text after the repair holds #REF!,
\* #NAME? or #VALUE! in any letter case the scan emits a critical
\* invalid_reference_token issue for that cell, and only the cells whose text
\* started with "==" count in repairs_applied.
C18_InvalidTokenCritical ==
  (call.fn = "_run_formula_qc_and_repairs" /\ ret # None) =>
    /\ \A c \in ScannedCells :
         (\E token \in {<<"#","R","E","F","!">>, <<"#","N","A","M","E","?">>,
                        <<"#","V","A","L","U","E","!">>} :
            Contains(Upper(ret[1].wb.sheets[c.si][c.k].s), token))
         => \E i \in IssuesOf(c, "invalid_reference_token") :
              ret[1].issues[i].severity = "critical"
    /\ ret[1].repairs_applied =
         Cardinality({c \in ScannedCells :
                        /\ Len(call.wb.sheets[c.si][c.k].s) >= 2
                        /\ call.wb.sheets[c.si][c.k].s[1] = "="
                        /\ call.wb.sheets[c.si][c.k].s[2] = "="})

\* a scan of "=#ref!+1" beside "=A1": a critical issue and no repair
C18_Witness ==
  /\ call.fn = "_run_formula_qc_and_repairs"
  /\ ret # None
  /\ call.scan = 1
  /\ call.wb.sheets[1][<<2, 1>>] = StrV(<<"=", "#", "r", "e", "f", "!", "+", "1">>)
  /\ call.wb.sheets[2][<<1, 1>>] = StrV(<<"=", "A", "1">>)
  /\ ret[1].repairs_applied = 0
  /\ \E i \in 1..Len(ret[1].issues) :
       /\ ret[1].issues[i].issueType = "invalid_reference_token"
       /\ ret[1].issues[i].severity = "critical"
       /\ ret[1].issues[i].cell = <<"A", "2">>

\* C19: for every formula cell the scan emits one critical
\* missing_sheet_reference issue for each distinct sheet name the formula
\* references that matches no sheet of the workbook in any letter case, in
\* sorted order, each naming the sheet as the formula writes it (quotes taken
\* off); a reference to an existing sheet, in any letter case, gives none.
C19_MissingSheetNamed ==
  (call.fn = "_run_formula_qc_and_repairs" /\ ret # None) =>
    \A c \in ScannedCells :
      LET missing ==
            {n \in call.written[c.si] :
               \A k \in 1..Len(call.wb.sheetnames) :
                 Lower(n) # Lower(call.wb.sheetnames[k])}
          found == IssuesOf(c, "missing_sheet_reference")
      IN  /\ Cardinality(found) = Cardinality(missing)
          /\ {ret[1].issues[i].arg : i \in found} = missing
          /\ \A i \in found : ret[1].issues[i].severity = "critical"
          /\ \A i, j \in found :
               i < j => StrLess(ret[1].issues[i].arg, ret[1].issues[j].arg)

\* C20: _build_qc_report returns blocked exactly when some issue of the whole
\* list is critical, criticalUnresolved = the number of critical issues of the
\* whole list, at most 50 issues (the first ones), and recommendedActions
\* non-empty, naming the operation, exactly when blocked.
C20_QcReport ==
  (call.fn = "_build_qc_report" /\ ret # None) =>
    LET critical == {i \in 1..Len(call.issues) : call.issues[i].severity = "critical"}
    IN  /\ ret[1].blocked = (critical # {})
        /\ ret[1].criticalUnresolved = Cardinality(critical)
        /\ Len(ret[1].issues) <= 50
        /\ Len(ret[1].issues) <= Len(call.issues)
        /\ Len(call.issues) <= 50 => ret[1].issues = call.issues
        /\ \A i \in 1..Len(ret[1].issues) : ret[1].issues[i] = call.issues[i]
        /\ (ret[1].recommendedActions # <<>>) = ret[1].blocked
        /\ ret[1].blocked =>
             \E k \in 1..Len(ret[1].recommendedActions) :
               ret[1].recommendedActions[k] = call.operation

\* a list of more than 50 issues whose only critical issue is the last one:
\* the report is blocked and counts it though none of the 50 issues it
\* reports is critical
C20_Witness ==
  /\ call.fn = "_build_qc_report"
  /\ ret # None
  /\ Len(call.issues) > 50
  /\ \A i \in 1..Len(call.issues) :
       (call.issues[i].severity = "critical") = (i = Len(call.issues))
  /\ ret[1].blocked
  /\ ret[1].criticalUnresolved = 1
  /\ Len(ret[1].issues) = 50
  /\ \A i \in 1..Len(ret[1].issues) : ret[1].issues[i].severity = "warning"

(***************************************************************************)
(* C21                                                                     *)
(***************************************************************************)
\* the changes of the call for which a value is written: row >= 1, col >= 1,
\* a value that is not null, and a write that does not fail
C21_Written ==
  {i \in 1..Len(call.changes) :
     /\ call.changes[i].row >= 1
     /\ call.changes[i].col >= 1
     /\ call.changes[i].value # NoneV
     /\ ~WriteRaises(ChangeWrites(call.changes[i]))}

\* C21: _apply_worksheet_changes writes a value for exactly the changes with
\* row >= 1, col >= 1, a non-null value and a write that does not fail (a
\* cell holds the value of the last such change for it, every other cell is
\* as before, whatever failed earlier in the list), and the count it returns
\* is the number of changes for which a value was written.
C21_ApplyContract ==
  (call.fn = "_apply_worksheet_changes" /\ ret # None) =>
    /\ ret[1].changes_applied = Cardinality(C21_Written)
    /\ \A k \in DOMAIN ret[1].ws \cup DOMAIN call.ws :
         LET hits == {i \in C21_Written : <<call.changes[i].row, call.changes[i].col>> = k}
         IN  IF hits = {} THEN k \in DOMAIN call.ws /\ ret[1].ws[k] = call.ws[k]
             ELSE ret[1].ws[k] =
                    ChangeWrites(call.changes[CHOOSE i \in hits : \A j \in hits : j <= i])

(***************************************************************************)
(* C22                                                                     *)
(***************************************************************************)
\* the candidates of the call in priority order, each with its provenance tag
C22_Candidates ==
  << <<call.requested_model_id, "request">>,
     <<call.valve_model_id, "valve">>,
     <<call.fallback_model_id, "fallback">> >>

\* the positions of the candidates that are a non-empty id of the configured set
C22_Matches ==
  {i \in 1..3 : /\ C22_Candidates[i][1] \notin {<<>>, <<"">>}
                /\ C22_Candidates[i][1][1] \in call.configured_models}

\* C22: _resolve_llm_qc_model_id returns the first of request, valve,
\* fallback that is a non-empty id of the configured set, with its provenance
\* tag, and (None, None) exactly when there is no such candidate; a candidate
\* of higher priority that is absent or not configured hides none below it.
C22_ResolveFirstConfigured ==
  (call.fn = "_resolve_llm_qc_model_id" /\ ret # None) =>
    /\ (C22_Matches = {}) <=> (ret[1] = << <<>>, <<>> >>)
    /\ \A i \in C22_Matches :
         (\A j \in C22_Matches : i <= j) =>
           ret[1] = <<C22_Candidates[i][1], <<C22_Candidates[i][2]>> >>

\* the request id is set but not configured, the valve id is None, and the
\* fallback id, which is configured, was returned
C22_Witness ==
  /\ call.fn = "_resolve_llm_qc_model_id"
  /\ ret # None
  /\ call.requested_model_id = <<"m3">>
  /\ call.valve_model_id = <<>>
  /\ call.fallback_model_id = <<"m2">>
  /\ ret[1] = << <<"m2">>, <<"fallback">> >>

(***************************************************************************)
(* C23                                                                     *)
(***************************************************************************)
\* C23: _expand_range returns, for a range of two coordinates, exactly the
\* addresses of the rows and columns between them, each once (A1:B2 gives
\* A1, A2, B1, B2; A1:B3 gives 6 addresses); for a string without ":" the
\* string itself; and for a malformed range the string it was given, as the
\* one element of the list.
C23_ExpandRange ==
  (call.fn = "_expand_range" /\ ret # None) =>
    /\ call.kind = "range" =>
         /\ SeqToSet(ret[1]) =
              {Address(r, c) : r \in call.start[1]..call.end[1],
                               c \in call.start[2]..call.end[2]}
         /\ Len(ret[1]) = (call.end[1] - call.start[1] + 1)
                            * (call.end[2] - call.start[2] + 1)
    /\ call.kind \in {"single", "malformed"} => ret[1] = <<call.range_str>>

(***************************************************************************)
(* C24                                                                     *)
(***************************************************************************)
\* C24: the QC scan changes the value of a cell only if the cell's formula
\* text started with "==": the workbook has the same sheets and cells after
\* the scan, and every cell whose value is not a text starting with "=="
\* holds the value it held before.
C24_ScanFrame ==
  (call.fn = "_run_formula_qc_and_repairs" /\ ret # None) =>
    /\ ret[1].wb.sheetnames = call.wb.sheetnames
    /\ ret[1].wb.defined_names = call.wb.defined_names
    /\ DOMAIN ret[1].wb.sheets = DOMAIN call.wb.sheets
    /\ \A si \in DOMAIN call.wb.sheets :
         /\ DOMAIN ret[1].wb.sheets[si] = DOMAIN call.wb.sheets[si]
         /\ \A k \in DOMAIN call.wb.sheets[si] :
              ret[1].wb.sheets[si][k] # call.wb.sheets[si][k] =>
                /\ call.wb.sheets[si][k].t = "str"
                /\ StartsWith(call.wb.sheets[si][k].s, <<"=", "=">>)

\* a scan that repaired the "==" formula of the first sheet and left the
\* formula with an error token in lower case, which it reported as
\* critical, as it was
C24_Witness ==
  /\ call.fn = "_run_formula_qc_and_repairs"
  /\ ret # None
  /\ call.wb.sheets[1][<<2, 1>>] = StrV(<<"=", "=", "A", "1">>)
  /\ ret[1].wb.sheets[1][<<2, 1>>] = StrV(<<"=", "A", "1">>)
  /\ call.wb.sheets[2][<<1, 1>>] = StrV(<<"=", "#", "r", "e", "f", "!", "+", "1">>)
  /\ ret[1].wb.sheets[2][<<1, 1>>] = call.wb.sheets[2][<<1, 1>>]
  /\ ret[1].wb.sheets[1][<<1, 1>>] = IntV(10)
  /\ \E i \in 1..Len(ret[1].issues) : ret[1].issues[i].severity = "critical"

(***************************************************************************)
(* C25                                                                     *)
(***************************************************************************)
\* C25: download-ready enters the LLM model-selection step only when the
\* request sets allowLlmRepair and the QC report of this invocation is not
\* blocked; the response for a blocked document names no selected model.
C25_LlmSelectionGated ==
  \A p \in Procs :
    /\ "llm" \in loc[p].did =>
         /\ req[p].allowLlmRepair
         /\ ~loc[p].qc_report[1].blocked
    /\ (req[p].op = "download" /\ resp[p].code = 200 /\ resp[p].qcReport[1].blocked) =>
         /\ resp[p].selectedLlmModelId = None
         /\ resp[p].selectedLlmModelSource = None

(***************************************************************************)
(* C26                                                                     *)
(***************************************************************************)
\* C26: when _persist_workbook_atomically ends, having returned or raised
\* at any step, neither its temporary file nor the sibling backup file
\* exists, and the outcome is that of the earlier steps: a return when none
\* raised, else the error of the step that raised, whatever the deletions did.
C26_NoLeftoverFiles ==
  [][\A p \in Procs :
       (pc[p] = "p_cleanup" /\ pc'[p] # "p_cleanup") =>
         /\ tmp'[p] = Absent
         /\ bak'[Fid(p)] = Absent
         /\ IF loc[p].exc = ""
            THEN pc'[p] = "meta" /\ resp'[p] = resp[p]
            ELSE /\ pc'[p] = "idle"
                 /\ resp'[p] = ErrorResponse(ErrorCode(p, loc[p].exc))]_vars

(***************************************************************************)
(* C27.  A workflow inside its critical section for one document never      *)
(* keeps a workflow for a different document from starting, acquiring its   *)
(* own lock and going on; and the table guard is held only during the       *)
(* lookup/insert of a lock, never while a workflow runs.                    *)
(* Stated for the event loop: whenever task p is in its critical section    *)
(* and a request for another document is due on an idle task q, the loop    *)
(* can run q's handler.                                                     *)
(***************************************************************************)
C27_OtherDocumentProceeds ==
  /\ \A p \in Procs : guard.owner = p => pc[p] = "in_guard"
  /\ \A p \in Procs : \A q \in Procs \ {p} : \A r \in Requests :
       (/\ pc[p] \in CriticalPcs
        /\ pc[q] = "idle"
        /\ nreq < MaxReqs
        /\ r.op # "validate"
        /\ r.fileId # Fid(p))
       => ENABLED (LoopTurn(q) /\ Start(q, r))

(***************************************************************************)
(* C28.  In an update with strictFormulaMode and without                    *)
(* allowFormulaOverwrite that preflight did not block, every change that is *)
(* written to a cell which held a formula when the workbook was loaded      *)
(* carries forceOverwriteFormula, also when the change list names the same  *)
(* cell several times with different flags.                                 *)
(***************************************************************************)
C28_AppliedFormulaChangesForced ==
  \A p \in Procs :
    (/\ req[p].op = "update"
     /\ req[p].strictFormulaMode
     /\ ~req[p].allowFormulaOverwrite
     /\ "apply" \in loc[p].did)
    => \A i \in 1..Len(req[p].changes) :
         (/\ ChangeWritten(req[p].changes[i])
          /\ IsFormulaValue(
               CellValue(
                 load_workbook(loc[p].loaded).sheets[
                   SheetIndex(load_workbook(loc[p].loaded), req[p].sheet)],
                 req[p].changes[i].row, req[p].changes[i].col)))
         => req[p].changes[i].forceOverwriteFormula

\* the formulas a QC report lists as repaired are in the stored file
C29_RepairsPresent(file, report) ==
  /\ Loadable(file)
  /\ \A i \in 1..Len(report.issues) :
       report.issues[i].issueType = "auto_repaired_formula_prefix" =>
         \E k \in DOMAIN load_workbook(file).sheets[
                    SheetIndex(load_workbook(file), report.issues[i].sheet)] :
           /\ Address(k[1], k[2]) = report.issues[i].cell
           /\ load_workbook(file).sheets[
                SheetIndex(load_workbook(file), report.issues[i].sheet)][k]
                = report.issues[i].repairedFormula

(***************************************************************************)
(* C29.  Whenever update or download-ready returns a response, ok or        *)
(* blocked, with repairsApplied > 0, or stores metadata with                *)
(* excel_last_repairs_applied > 0, the repaired formulas are in the file on *)
(* disk at that moment.                                                     *)
(***************************************************************************)
C29_ReportedRepairsOnDisk ==
  [][\A p \in Procs :
       (\/ /\ resp'[p] # resp[p]
           /\ resp'[p].status \in {"ok", "blocked"}
           /\ resp'[p].repairsApplied > 0
        \/ /\ pc[p] = "meta"
           /\ meta'[Fid(p)] # meta[Fid(p)]
           /\ meta'[Fid(p)].repairs_applied > 0)
       => C29_RepairsPresent(disk'[Fid(p)], loc'[p].qc_report[1])]_vars

\* task p is on its way to its document's lock
C30_Requesting(p) ==
  pc[p] \in {"get_lock", "guard_wait", "in_guard", "acquire", "lock_wait"}

(***************************************************************************)
(* C30.  When every task that can step does so eventually (so every holder  *)
(* of a lock finishes its critical section), an update or download-ready    *)
(* that requests its document's lock eventually holds it, and eventually    *)
(* returns ok, blocked or an error: no waiter is starved and the guard and  *)
(* the document locks never deadlock.                                       *)
(***************************************************************************)
C30_EventuallyAcquiresAndReturns ==
  \A p \in Procs :
    /\ C30_Requesting(p) ~> (pc[p] = "load" /\ locks[lk[p]].owner = p)
    /\ C30_Requesting(p)
         ~> (pc[p] = "idle" /\ resp[p].status \in {"ok", "blocked", "error"})

\* a task that had to wait for the lock another task held has returned
C30_Witness ==
  \E p \in Procs :
    /\ req[p].op \in {"update", "download"}
    /\ loc[p].waited
    /\ pc[p] = "idle"
    /\ resp[p].status \in {"ok", "blocked", "error"}

====
